---- MODULE Spec2Model ----
(***************************************************************************)
(* The blackjack rules engine of src/js/deck.js (Deck, Hand) and           *)
(* src/js/game.js (BlackjackGame): the shoe, the hands, the round state    *)
(* machine with its suspension points, payouts and statistics.             *)
(*                                                                         *)
(* The engine object is the record `game` (one field per field of `this`); *)
(* every method is an operator from a game record to the game record the   *)
(* method leaves behind.  An async method runs up to its next `await` in   *)
(* one step; the rest of it is a continuation in `tasks`, named by the     *)
(* place it resumes at.                                                    *)
(*                                                                         *)
(* Money is counted in whole chips.  The stakes of Amounts are even, so    *)
(* every `bet / 2` and `bet * (1 + 1.5)` of the code is an integer and     *)
(* Half is exact.                                                          *)
(***************************************************************************)
EXTENDS Integers, Sequences, FiniteSets

\* ------------------------------------------------------------------ bounds

\* Calls of hit() and double() that get as far as the shoe, in one behaviour.
MaxHits == 2

\* Player hands split() may build up in a behaviour of Spec.
MaxHands == 2

\* Player hands split() may build up in a behaviour of SpecSplit (the
\* engine's own limit is MAX_SPLIT_HANDS, in canSplit).
MaxHandsSplit == 5

\* Calls of deal() that pass its guard in one behaviour of SpecRounds.
MaxDeals == 2

\* Successful calls of placeBet() between two calls of newRound(), in a
\* behaviour of SpecRounds.
MaxBets == 2

\* Calls of newRound() in one behaviour.
MaxNewRounds == 1

\* Async methods suspended at the same time in a behaviour of SpecAsync.
MaxTasks == 2

\* Calls of Deck.deal() in one behaviour of SpecDeck.
MaxDeckDeals == 5

\* the cards a hand on its own is given
MaxCards == 4

\* the cards of a hand the advisor is asked about
MaxAdviceCards == 2

\* the cards dealt from a shoe whose count is read
MaxCountDeals == 4

\* The caller of SpecAsync stops calling once the balance has reached this
\* (a surrender() that ends on a TypeError can be repeated without end).
BalanceCap == 10200

\* The caller of SpecChips adds no chips beyond this balance.
ChipsCap == 250

\* settings.maxBet as restored from storage by loadSettings; the default,
\* CONFIG.MAX_BET = 999000000000, is beyond the integers of the checker.
StoredMaxBet == 20000

\* ------------------------------------------------------- program constants

RANKS == {"A", "2", "3", "4", "5", "6", "7", "8", "9", "10", "J", "Q", "K"}

SUIT_COUNT == 4

DECK_SIZE == 52

DEFAULT_DECK_COUNT == 6

DEFAULT_PENETRATION_PCT == 75

DEFAULT_BALANCE == 10000

MIN_BET == 10

\* CONFIG.BLACKJACK_PAYS = 1.5, as halves
BLACKJACK_PAYS_X2 == 3

\* the factor of `insuranceBet * 3` in handleInsuranceDecision
INSURANCE_RETURN == 3

MAX_SPLIT_HANDS == 4

BETTING == "betting"
DEALING == "dealing"
INSURANCE == "insurance"
PLAYER_TURN == "player_turn"
DEALER_TURN == "dealer_turn"
PAYOUT == "payout"
GAME_OVER == "game_over"

COUNTING_SYSTEMS ==
  [s \in {"hi-lo", "ko", "omega2", "hi-opt1", "hi-opt2"} |->
    [r \in RANKS |->
      CASE s = "hi-lo"   -> (IF r \in {"2", "3", "4", "5", "6"} THEN 1
                             ELSE IF r \in {"7", "8", "9"} THEN 0 ELSE -1)
        [] s = "ko"      -> (IF r \in {"2", "3", "4", "5", "6", "7"} THEN 1
                             ELSE IF r \in {"8", "9"} THEN 0 ELSE -1)
        [] s = "omega2"  -> (IF r \in {"2", "3", "7"} THEN 1
                             ELSE IF r \in {"4", "5", "6"} THEN 2
                             ELSE IF r \in {"A", "8"} THEN 0
                             ELSE IF r = "9" THEN -1 ELSE -2)
        [] s = "hi-opt1" -> (IF r \in {"3", "4", "5", "6"} THEN 1
                             ELSE IF r \in {"A", "2", "7", "8", "9"} THEN 0 ELSE -1)
        [] s = "hi-opt2" -> (IF r \in {"2", "3", "6", "7"} THEN 1
                             ELSE IF r \in {"4", "5"} THEN 2
                             ELSE IF r \in {"A", "8", "9"} THEN 0 ELSE -2)]]

\* ------------------------------------------------------------------- cards

getCardValue(rank) ==
  IF rank = "A" THEN 11
  ELSE IF rank \in {"J", "Q", "K"} THEN 10
  ELSE CASE rank = "2" -> 2 [] rank = "3" -> 3 [] rank = "4" -> 4
         [] rank = "5" -> 5 [] rank = "6" -> 6 [] rank = "7" -> 7
         [] rank = "8" -> 8 [] rank = "9" -> 9 [] rank = "10" -> 10

\* A card as a hand holds it: its rank and its mutable faceUp flag (suits
\* decide nothing in the engine).
createCard(rank) == [rank |-> rank, faceUp |-> TRUE]

Half(x) == x \div 2

\* ------------------------------------------------------------------- hands

NewHand ==
  [cards |-> <<>>, bet |-> 0, isDoubled |-> FALSE, isSplit |-> FALSE,
   isStood |-> FALSE, isBusted |-> FALSE, isSurrendered |-> FALSE,
   insuranceBet |-> 0]

RECURSIVE RawTotal(_)
RawTotal(cards) ==
  IF cards = <<>> THEN 0
  ELSE getCardValue(Head(cards).rank) + RawTotal(Tail(cards))

RECURSIVE AceCount(_)
AceCount(cards) ==
  IF cards = <<>> THEN 0
  ELSE (IF Head(cards).rank = "A" THEN 1 ELSE 0) + AceCount(Tail(cards))

RECURSIVE ReduceAces(_, _)
ReduceAces(value, aces) ==
  IF value > 21 /\ aces > 0 THEN ReduceAces(value - 10, aces - 1) ELSE value

\* getValue() lowering one ace at most
getValueOneAceLowered(hand) ==
  ReduceAces(RawTotal(hand.cards), IF AceCount(hand.cards) > 0 THEN 1 ELSE 0)

getValue(hand) == ReduceAces(RawTotal(hand.cards), AceCount(hand.cards))

isSoft(hand) == AceCount(hand.cards) > 0 /\ RawTotal(hand.cards) <= 21

\* isBlackjack() without its test of the split flag
isBlackjackAlsoSplit(hand) == Len(hand.cards) = 2 /\ getValue(hand) = 21

isBlackjack(hand) ==
  Len(hand.cards) = 2 /\ getValue(hand) = 21 /\ ~hand.isSplit

HandCanSplit(hand) ==
  IF Len(hand.cards) # 2 THEN FALSE
  ELSE hand.cards[1].rank = hand.cards[2].rank

HandCanDouble(hand, anyCards) ==
  IF hand.isDoubled THEN FALSE
  ELSE IF anyCards THEN TRUE
  ELSE Len(hand.cards) = 2

checkBust(hand) ==
  IF getValue(hand) > 21 THEN [hand EXCEPT !.isBusted = TRUE] ELSE hand

addCard(hand, card) == checkBust([hand EXCEPT !.cards = Append(@, card)])

HandClear(hand) == NewHand

\* -------------------------------------------------------------------- shoe

\* The draw pile and the discard pile as the number of cards of each rank:
\* shuffle() orders the pile at random, so the card deal() pops is any card
\* still in it.
BagSize(bag) ==
  LET RECURSIVE Sum(_)
      Sum(S) == IF S = {} THEN 0
                ELSE LET r == CHOOSE x \in S : TRUE IN bag[r] + Sum(S \ {r})
  IN Sum(DOMAIN bag)

EmptyBag == [r \in RANKS |-> 0]

DeckInitialize(deck) ==
  [deck EXCEPT !.cards = [r \in RANKS |-> deck.deckCount * SUIT_COUNT],
               !.dealtCards = EmptyBag,
               !.runningCount = 0]

DeckShuffle(deck) ==
  [deck EXCEPT !.dealtCards = EmptyBag, !.runningCount = 0]

NewDeck(deckCount) ==
  DeckInitialize([deckCount |-> deckCount, cards |-> EmptyBag,
                  dealtCards |-> EmptyBag, penetrationPct |-> DEFAULT_PENETRATION_PCT,
                  runningCount |-> 0, countingSystem |-> "hi-lo"])

DeckDeal(deck, rank) ==
  [deck EXCEPT !.cards[rank] = @ - 1, !.dealtCards[rank] = @ + 1]

updateCount(deck, card) ==
  IF ~card.faceUp THEN deck
  ELSE [deck EXCEPT !.runningCount = @ + COUNTING_SYSTEMS[deck.countingSystem][card.rank]]

\* getTrueCount() divides in IEEE-754 doubles (53-bit significands, round to
\* nearest): decksRemaining = cards / 52, then runningCount / decksRemaining,
\* then Math.round.  The operators below compute what those three steps
\* return with integers alone.

RECURSIVE Pow2(_)
Pow2(k) == IF k = 0 THEN 1 ELSE 2 * Pow2(k - 1)

\* the largest s with 13 * 2^s <= cards: the double nearest cards / 52 is
\* m * 2^(s - 54) with m the integer nearest cards * 2^(52 - s) / 13
RECURSIVE DecksExponent(_, _)
DecksExponent(cards, s) ==
  IF 13 * Pow2(s + 1) <= cards THEN DecksExponent(cards, s + 1) ELSE s

\* cards * 2^(52 - s) - 13 * m, the error of that double in units of
\* 2^(s - 54) / 13: positive when the double is below cards / 52, zero when
\* 13 divides cards (2^12 = 1 modulo 13)
DecksRemainingError(cards) ==
  LET s == DecksExponent(cards, 0)
      r == (cards * Pow2((52 - s) % 12)) % 13
  IN IF r <= 6 THEN r ELSE r - 13

RECURSIVE Pow2Below(_, _)
Pow2Below(x, p) == IF 2 * p <= x THEN Pow2Below(x, 2 * p) ELSE p

Abs(x) == IF x < 0 THEN -x ELSE x

\* The double runningCount / decksRemaining, as the exact quotient
\* num / den and the units in the last place the double lies off it.  The
\* double is within 2^-40 of the exact quotient; it matters to Math.round
\* only when the exact quotient is k + 1/2: that number is a double, and the
\* division returns it or, when the true quotient
\* (k + 1/2) * (1 + error / (13 * m)) is more than half a unit in the last
\* place off it, the double next to it on that side.
DoubleQuotient(runningCount, cards) ==
  LET num == DECK_SIZE * runningCount
      twice == (2 * num) \div cards
      half == (2 * num) % cards = 0 /\ twice % 2 # 0
      err == DecksRemainingError(cards)
      s == DecksExponent(cards, 0)
      off == Abs(twice) * Abs(err) * Pow2(s + 1) >= cards * Pow2Below(Abs(twice), 1)
  IN [num |-> num, den |-> cards,
      ulps |-> IF half /\ err # 0 /\ off
               THEN (IF twice > 0 THEN 1 ELSE -1) * (IF err > 0 THEN 1 ELSE -1)
               ELSE 0]

\* Math.round: the nearest integer, the larger one of two equally near
MathRound(q) ==
  LET up == (2 * q.num + q.den) \div (2 * q.den)
      half == (2 * q.num) % q.den = 0 /\ ((2 * q.num) \div q.den) % 2 # 0
  IN IF half /\ q.ulps < 0 THEN up - 1 ELSE up

getTrueCount(deck) ==
  IF 2 * BagSize(deck.cards) < DECK_SIZE THEN deck.runningCount
  ELSE MathRound(DoubleQuotient(deck.runningCount, BagSize(deck.cards)))

needsReshuffle(deck) ==
  BagSize(deck.dealtCards) * 100 >= deck.penetrationPct * (deck.deckCount * DECK_SIZE)

\* setDeckCount(count)
setDeckCount(deck, count) ==
  DeckShuffle(DeckInitialize([deck EXCEPT !.deckCount = count]))

\* setPenetration(level), the level in hundredths
setPenetration(deck, pct) ==
  [deck EXCEPT !.penetrationPct =
     IF pct < 50 THEN 50 ELSE IF pct > 100 THEN 100 ELSE pct]

DeckReshuffle(deck) ==
  DeckShuffle([deck EXCEPT !.cards = [r \in RANKS |-> deck.cards[r] + deck.dealtCards[r]],
                           !.dealtCards = EmptyBag,
                           !.runningCount = 0])

\* ------------------------------------------------------------- the engine

DefaultSettings ==
  [deckCount |-> DEFAULT_DECK_COUNT, dealerHitsSoft17 |-> TRUE,
   blackjackPaysX2 |-> BLACKJACK_PAYS_X2, doubleAfterSplit |-> TRUE,
   resplitAces |-> FALSE, surrenderAllowed |-> TRUE, insuranceAllowed |-> TRUE,
   countingEnabled |-> FALSE, countingSystem |-> "hi-lo", minBet |-> MIN_BET,
   maxBet |-> StoredMaxBet, autoStandOn21 |-> TRUE, numHands |-> 1,
   dealerHoleCard |-> TRUE]

ZeroStats ==
  [handsPlayed |-> 0, handsWon |-> 0, handsLost |-> 0, handsPushed |-> 0,
   blackjacks |-> 0, totalWagered |-> 0, netProfit |-> 0]

\* The engine after its constructor ran against a storage that holds no
\* balance, no statistics and the settings entry {maxBet: StoredMaxBet}:
\* `saved` is what localStorage holds under the engine's three keys
\* ("none": no entry).
NewGame ==
  [deck |-> DeckShuffle(NewDeck(DEFAULT_DECK_COUNT)),
   playerHands |-> <<NewHand>>,
   dealerHand |-> NewHand,
   currentHandIndex |-> 0,
   state |-> BETTING,
   balance |-> DEFAULT_BALANCE,
   currentBet |-> 0,
   settings |-> DefaultSettings,
   stats |-> ZeroStats,
   saved |-> [balance |-> "none", stats |-> "none",
             settings |-> [maxBet |-> StoredMaxBet]]]

currentHand(g) == g.playerHands[g.currentHandIndex + 1]

SetCurrentHand(g, hand) ==
  [g EXCEPT !.playerHands[g.currentHandIndex + 1] = hand]

saveBalance(g) == [g EXCEPT !.saved.balance = g.balance]

saveStats(g) == [g EXCEPT !.saved.stats = g.stats]

saveSettings(g) == [g EXCEPT !.saved.settings = g.settings]

\* What a method leaves behind: the engine, and the place its continuation
\* resumes at ("done": it returned; "thrown": it ended on a TypeError;
\* "invalid": the drawn card is not one the shoe can give).
Done(g) == [g |-> g, pc |-> "done"]

Thrown(g) == [g |-> g, pc |-> "thrown"]

Suspended(g, pc) == [g |-> g, pc |-> pc]

\* `rank` is a card deal() can pop now; "none" when the pile is empty.
CanDraw(deck, rank) ==
  IF rank = "none" THEN BagSize(deck.cards) = 0
  ELSE deck.cards[rank] > 0

\* dealCardToHand that counts the card whichever way it lies
dealCardToHandCounted(g, who, faceUp, rank, next) ==
  IF ~CanDraw(g.deck, rank) THEN [g |-> g, pc |-> "invalid"]
  ELSE IF rank = "none" THEN Thrown(g)
  ELSE LET card == [createCard(rank) EXCEPT !.faceUp = faceUp]
           g1 == [g EXCEPT !.deck = DeckDeal(@, rank)]
           g2 == IF who = "dealer"
                 THEN [g1 EXCEPT !.dealerHand = addCard(@, card)]
                 ELSE SetCurrentHand(g1, addCard(currentHand(g1), card))
           g3 == [g2 EXCEPT !.deck = updateCount(@, createCard(rank))]
       IN Suspended(g3, next)

\* dealCardToHand(hand, faceUp) up to its await of onCardDealt; `who` names
\* the hand ("player": this.currentHand, "dealer": this.dealerHand) and
\* `next` the place the caller resumes at.
dealCardToHand(g, who, faceUp, rank, next) ==
  IF ~CanDraw(g.deck, rank) THEN [g |-> g, pc |-> "invalid"]
  ELSE IF rank = "none" THEN Thrown(g)
  ELSE LET card == [createCard(rank) EXCEPT !.faceUp = faceUp]
           g1 == [g EXCEPT !.deck = DeckDeal(@, rank)]
           g2 == IF who = "dealer"
                 THEN [g1 EXCEPT !.dealerHand = addCard(@, card)]
                 ELSE SetCurrentHand(g1, addCard(currentHand(g1), card))
           g3 == IF faceUp THEN [g2 EXCEPT !.deck = updateCount(@, card)] ELSE g2
       IN Suspended(g3, next)

\* placeBet without its test against settings.minBet
placeBetNoMinimum(g, amount) ==
  IF g.state # BETTING THEN [g |-> g, ret |-> FALSE]
  ELSE IF amount > g.settings.maxBet THEN [g |-> g, ret |-> FALSE]
  ELSE IF amount > g.balance THEN [g |-> g, ret |-> FALSE]
  ELSE [g |-> saveBalance([g EXCEPT !.currentBet = amount,
                                    !.balance = @ - amount,
                                    !.playerHands[1].bet = amount,
                                    !.stats.totalWagered = @ + amount]),
        ret |-> TRUE]

\* placeBet that records the wager and leaves the balance as it is
placeBetNoDeduct(g, amount) ==
  IF g.state # BETTING THEN [g |-> g, ret |-> FALSE]
  ELSE IF amount < g.settings.minBet \/ amount > g.settings.maxBet
    THEN [g |-> g, ret |-> FALSE]
  ELSE IF amount > g.balance THEN [g |-> g, ret |-> FALSE]
  ELSE [g |-> saveBalance([g EXCEPT !.currentBet = amount,
                                    !.playerHands[1].bet = amount,
                                    !.stats.totalWagered = @ + amount]),
        ret |-> TRUE]

placeBet(g, amount) ==
  IF g.state # BETTING THEN [g |-> g, ret |-> FALSE]
  ELSE IF amount < g.settings.minBet \/ amount > g.settings.maxBet
    THEN [g |-> g, ret |-> FALSE]
  ELSE IF amount > g.balance THEN [g |-> g, ret |-> FALSE]
  ELSE [g |-> saveBalance([g EXCEPT !.currentBet = amount,
                                    !.balance = @ - amount,
                                    !.playerHands[1].bet = amount,
                                    !.stats.totalWagered = @ + amount]),
        ret |-> TRUE]

endRound(g) == [g EXCEPT !.state = GAME_OVER]

\* the hole card turned face-up and not counted
RevealHoleCardUncounted(g) ==
  [g EXCEPT !.dealerHand.cards[2].faceUp = TRUE]

\* this.dealerHand.cards[1].faceUp = true; this.deck.updateCount(...)
RevealHoleCard(g) ==
  LET g1 == [g EXCEPT !.dealerHand.cards[2].faceUp = TRUE]
  IN [g1 EXCEPT !.deck = updateCount(@, g1.dealerHand.cards[2])]

\* a natural paid like any other win
BlackjackWinningsEvenMoney(bet, paysX2) == bet * 2

\* bet * (1 + this.settings.blackjackPays)
BlackjackWinnings(bet, paysX2) == bet + (bet * paysX2) \div 2

handleBlackjack(g) ==
  IF Len(g.dealerHand.cards) < 2 THEN Thrown(g)
  ELSE LET g1 == RevealHoleCard(g)
           bet == currentHand(g1).bet
           winnings == BlackjackWinnings(bet, g1.settings.blackjackPaysX2)
       IN IF isBlackjack(g1.dealerHand)
          THEN Done(endRound([g1 EXCEPT !.balance = @ + bet,
                                        !.stats.handsPushed = @ + 1]))
          ELSE Done(endRound([g1 EXCEPT !.balance = @ + winnings,
                                        !.stats.handsWon = @ + 1,
                                        !.stats.blackjacks = @ + 1,
                                        !.stats.netProfit = @ + (winnings - bet)]))

\* deal() up to its first await
deal(g, rank) ==
  IF g.currentBet = 0 THEN Done(g)
  ELSE LET g1 == IF needsReshuffle(g.deck)
                 THEN [g EXCEPT !.deck = DeckReshuffle(@)] ELSE g
           g2 == [g1 EXCEPT !.state = DEALING,
                            !.playerHands = <<[NewHand EXCEPT !.bet = g.currentBet]>>,
                            !.dealerHand = HandClear(@),
                            !.currentHandIndex = 0]
       IN dealCardToHand(g2, "player", TRUE, rank, "deal1")

\* the cost deal() hands to onInsurancePrompt: this.currentHand.bet / 2
InsurancePrompt(g) == Half(currentHand(g).bet)

\* the player's natural looked at before the dealer's ace
DealFinishBlackjackFirst(g) ==
  IF Len(g.dealerHand.cards) < 1 THEN Thrown(g)
  ELSE IF isBlackjack(currentHand(g)) THEN handleBlackjack(g)
  ELSE IF g.dealerHand.cards[1].rank = "A" /\ g.settings.insuranceAllowed
    THEN Done([g EXCEPT !.state = INSURANCE])
  ELSE Done([g EXCEPT !.state = PLAYER_TURN])

\* deal() after its fourth card
DealFinish(g) ==
  IF Len(g.dealerHand.cards) < 1 THEN Thrown(g)
  ELSE IF g.dealerHand.cards[1].rank = "A" /\ g.settings.insuranceAllowed
    THEN Done([g EXCEPT !.state = INSURANCE])
  ELSE IF isBlackjack(currentHand(g)) THEN handleBlackjack(g)
  ELSE Done([g EXCEPT !.state = PLAYER_TURN])

\* insurance paid 1:1
InsurancePayoutEvenMoney(insuranceBet) == insuranceBet * 2

\* this.currentHand.insuranceBet * 3
InsurancePayout(insuranceBet) == insuranceBet * INSURANCE_RETURN

handleInsuranceDecision(g, takeInsurance) ==
  IF g.state # INSURANCE THEN Done(g)
  ELSE
    LET insuranceAmount == Half(currentHand(g).bet)
        g1 == IF takeInsurance /\ insuranceAmount <= g.balance
              THEN SetCurrentHand([g EXCEPT !.balance = @ - insuranceAmount],
                                  [currentHand(g) EXCEPT !.insuranceBet = insuranceAmount])
              ELSE g
    IN IF isBlackjack(g1.dealerHand)
       THEN LET g2 == RevealHoleCard(g1)
                g3 == IF currentHand(g2).insuranceBet > 0
                      THEN [g2 EXCEPT !.balance =
                                @ + InsurancePayout(currentHand(g2).insuranceBet)]
                      ELSE g2
            IN IF isBlackjack(currentHand(g3))
               THEN Done(endRound([g3 EXCEPT !.balance = @ + currentHand(g3).bet,
                                             !.stats.handsPushed = @ + 1]))
               ELSE Done(endRound([g3 EXCEPT !.stats.handsLost = @ + 1,
                                             !.stats.netProfit = @ - currentHand(g3).bet]))
       ELSE IF isBlackjack(currentHand(g1)) THEN handleBlackjack(g1)
       ELSE Done([g1 EXCEPT !.state = PLAYER_TURN])

shouldDealerHit(g) ==
  LET value == getValue(g.dealerHand)
  IN IF value < 17 THEN TRUE
     ELSE IF value = 17 /\ isSoft(g.dealerHand) /\ g.settings.dealerHitsSoft17 THEN TRUE
     ELSE FALSE

\* the loop's tests with the dealer's bust looked at before the hand's
HandPayoutDealerBustFirst(hand, dealerValue, dealerBusted) ==
  LET playerValue == getValue(hand)
  IN IF hand.isSurrendered THEN [payout |-> Half(hand.bet), won |-> 0, lost |-> 0, pushed |-> 0, net |-> 0]
     ELSE IF dealerBusted THEN [payout |-> hand.bet * 2, won |-> 1, lost |-> 0, pushed |-> 0, net |-> hand.bet]
     ELSE IF hand.isBusted THEN [payout |-> 0, won |-> 0, lost |-> 1, pushed |-> 0, net |-> -hand.bet]
     ELSE IF playerValue > dealerValue THEN [payout |-> hand.bet * 2, won |-> 1, lost |-> 0, pushed |-> 0, net |-> hand.bet]
     ELSE IF playerValue < dealerValue THEN [payout |-> 0, won |-> 0, lost |-> 1, pushed |-> 0, net |-> -hand.bet]
     ELSE [payout |-> hand.bet, won |-> 0, lost |-> 0, pushed |-> 1, net |-> 0]

\* One turn of the loop of resolveHands: the payout of a hand and what it
\* adds to the statistics.
HandPayout(hand, dealerValue, dealerBusted) ==
  LET playerValue == getValue(hand)
  IN IF hand.isSurrendered THEN [payout |-> Half(hand.bet), won |-> 0, lost |-> 0, pushed |-> 0, net |-> 0]
     ELSE IF hand.isBusted THEN [payout |-> 0, won |-> 0, lost |-> 1, pushed |-> 0, net |-> -hand.bet]
     ELSE IF dealerBusted THEN [payout |-> hand.bet * 2, won |-> 1, lost |-> 0, pushed |-> 0, net |-> hand.bet]
     ELSE IF playerValue > dealerValue THEN [payout |-> hand.bet * 2, won |-> 1, lost |-> 0, pushed |-> 0, net |-> hand.bet]
     ELSE IF playerValue < dealerValue THEN [payout |-> 0, won |-> 0, lost |-> 1, pushed |-> 0, net |-> -hand.bet]
     ELSE [payout |-> hand.bet, won |-> 0, lost |-> 0, pushed |-> 1, net |-> 0]

RECURSIVE PayHands(_, _)
PayHands(g, i) ==
  IF i > Len(g.playerHands) THEN g
  ELSE LET p == HandPayout(g.playerHands[i], getValue(g.dealerHand), g.dealerHand.isBusted)
       IN PayHands([g EXCEPT !.balance = @ + p.payout,
                             !.stats.handsWon = @ + p.won,
                             !.stats.handsLost = @ + p.lost,
                             !.stats.handsPushed = @ + p.pushed,
                             !.stats.netProfit = @ + p.net], i + 1)

resolveHands(g) ==
  LET g1 == PayHands([g EXCEPT !.state = PAYOUT], 1)
      g2 == saveStats([g1 EXCEPT !.stats.handsPlayed = @ + 1])
  IN endRound(g2)

\* the test of dealerTurn without the surrendered hands
AllBusted(g) ==
  \A i \in 1..Len(g.playerHands) : g.playerHands[i].isBusted

AllBustedOrSurrendered(g) ==
  \A i \in 1..Len(g.playerHands) :
    g.playerHands[i].isBusted \/ g.playerHands[i].isSurrendered

\* dealerTurn() up to its await of the reveal notification
dealerTurn(g) ==
  IF AllBustedOrSurrendered(g)
  THEN IF Len(g.dealerHand.cards) < 2 THEN Thrown(g)
       ELSE Done(resolveHands(RevealHoleCard(g)))
  ELSE LET g1 == [g EXCEPT !.state = DEALER_TURN]
       IN IF Len(g1.dealerHand.cards) < 2 THEN Thrown(g1)
          ELSE Suspended(RevealHoleCard(g1), "dealer_loop")

\* the loop left without the call of resolveHands()
DealerLoopUnresolved(g) ==
  IF shouldDealerHit(g) THEN Suspended(g, "dealer_delay")
  ELSE Done(g)

\* the test of dealerTurn's while loop, up to the await of the pacing delay
DealerLoop(g) ==
  IF shouldDealerHit(g) THEN Suspended(g, "dealer_delay")
  ELSE Done(resolveHands(g))

handleHandComplete(g, rank) ==
  IF g.currentHandIndex < Len(g.playerHands) - 1
  THEN LET g1 == [g EXCEPT !.currentHandIndex = @ + 1]
       IN IF Len(currentHand(g1).cards) = 1
          THEN dealCardToHand(g1, "player", TRUE, rank, "hhc1")
          ELSE Done(g1)
  ELSE dealerTurn(g)

\* hit() up to its await
hit(g, rank) ==
  IF g.state # PLAYER_TURN THEN Done(g)
  ELSE dealCardToHand(g, "player", TRUE, rank, "hit1")

\* hit() after its card
HitAfter(g, rank) ==
  IF currentHand(g).isBusted THEN handleHandComplete(g, rank)
  ELSE IF getValue(currentHand(g)) = 21 /\ g.settings.autoStandOn21
    THEN handleHandComplete(SetCurrentHand(g, [currentHand(g) EXCEPT !.isStood = TRUE]), rank)
  ELSE Done(g)

stand(g, rank) ==
  IF g.state # PLAYER_TURN THEN Done(g)
  ELSE handleHandComplete(SetCurrentHand(g, [currentHand(g) EXCEPT !.isStood = TRUE]), rank)

\* double() without its test of the balance
doubleOnCredit(g, rank) ==
  IF g.state # PLAYER_TURN THEN Done(g)
  ELSE IF ~HandCanDouble(currentHand(g), FALSE) THEN Done(g)
  ELSE LET additionalBet == currentHand(g).bet
           g1 == [g EXCEPT !.balance = @ - additionalBet,
                           !.stats.totalWagered = @ + additionalBet]
           g2 == SetCurrentHand(g1, [currentHand(g1) EXCEPT !.bet = @ * 2,
                                                            !.isDoubled = TRUE])
       IN dealCardToHand(g2, "player", TRUE, rank, "double1")

\* double() up to its await
double(g, rank) ==
  IF g.state # PLAYER_TURN THEN Done(g)
  ELSE IF ~HandCanDouble(currentHand(g), FALSE) THEN Done(g)
  ELSE LET additionalBet == currentHand(g).bet
       IN IF additionalBet > g.balance THEN Done(g)
          ELSE LET g1 == [g EXCEPT !.balance = @ - additionalBet,
                                   !.stats.totalWagered = @ + additionalBet]
                   g2 == SetCurrentHand(g1, [currentHand(g1) EXCEPT !.bet = @ * 2,
                                                                    !.isDoubled = TRUE])
               IN dealCardToHand(g2, "player", TRUE, rank, "double1")

\* double() after its card
DoubleAfter(g, rank) ==
  handleHandComplete(SetCurrentHand(g, [currentHand(g) EXCEPT !.isStood = TRUE]), rank)

\* this.playerHands.splice(index, 0, hand)
Splice(hands, index, hand) ==
  SubSeq(hands, 1, index) \o <<hand>> \o SubSeq(hands, index + 1, Len(hands))

\* split() that puts up no second stake: the balance and totalWagered stay
splitUnpaid(g, rank) ==
  IF g.state # PLAYER_TURN THEN Done(g)
  ELSE IF ~HandCanSplit(currentHand(g)) THEN Done(g)
  ELSE LET additionalBet == currentHand(g).bet
       IN IF additionalBet > g.balance THEN Done(g)
          ELSE LET cur == currentHand(g)
                   popped == cur.cards[Len(cur.cards)]
                   newHand == addCard([NewHand EXCEPT !.bet = additionalBet,
                                                      !.isSplit = TRUE], popped)
                   g2 == SetCurrentHand(g,
                           [cur EXCEPT !.cards = SubSeq(@, 1, Len(@) - 1),
                                       !.isSplit = TRUE])
                   g3 == [g2 EXCEPT !.playerHands =
                            Splice(@, g2.currentHandIndex + 1, newHand)]
               IN dealCardToHand(g3, "player", TRUE, rank, "split1")

\* split() up to its await
split(g, rank) ==
  IF g.state # PLAYER_TURN THEN Done(g)
  ELSE IF ~HandCanSplit(currentHand(g)) THEN Done(g)
  ELSE LET additionalBet == currentHand(g).bet
       IN IF additionalBet > g.balance THEN Done(g)
          ELSE LET g1 == [g EXCEPT !.balance = @ - additionalBet,
                                   !.stats.totalWagered = @ + additionalBet]
                   cur == currentHand(g1)
                   popped == cur.cards[Len(cur.cards)]
                   newHand == addCard([NewHand EXCEPT !.bet = additionalBet,
                                                      !.isSplit = TRUE], popped)
                   g2 == SetCurrentHand(g1,
                           [cur EXCEPT !.cards = SubSeq(@, 1, Len(@) - 1),
                                       !.isSplit = TRUE])
                   g3 == [g2 EXCEPT !.playerHands =
                            Splice(@, g2.currentHandIndex + 1, newHand)]
               IN dealCardToHand(g3, "player", TRUE, rank, "split1")

surrender(g, rank) ==
  IF g.state # PLAYER_TURN THEN Done(g)
  ELSE IF Len(currentHand(g).cards) # 2 THEN Done(g)
  ELSE IF ~g.settings.surrenderAllowed THEN Done(g)
  ELSE LET cur == currentHand(g)
           g1 == SetCurrentHand(g, [cur EXCEPT !.isSurrendered = TRUE])
           g2 == [g1 EXCEPT !.balance = @ + Half(cur.bet)]
       IN handleHandComplete(g2, rank)

\* newRound() that also puts the discard pile back into the shoe
newRoundReshuffled(g) ==
  [g EXCEPT !.playerHands = <<NewHand>>,
            !.dealerHand = HandClear(@),
            !.currentHandIndex = 0,
            !.currentBet = 0,
            !.state = BETTING,
            !.deck = DeckReshuffle(@)]

newRound(g) ==
  [g EXCEPT !.playerHands = <<NewHand>>,
            !.dealerHand = HandClear(@),
            !.currentHandIndex = 0,
            !.currentBet = 0,
            !.state = BETTING]

\* reshuffle(): this.deck.reshuffle()
reshuffle(g) == [g EXCEPT !.deck = DeckReshuffle(@)]

addChips(g, amount) == saveBalance([g EXCEPT !.balance = @ + amount])

canHit(g) ==
  g.state = PLAYER_TURN /\ ~currentHand(g).isStood /\ ~currentHand(g).isBusted

canStand(g) ==
  g.state = PLAYER_TURN /\ ~currentHand(g).isStood /\ ~currentHand(g).isBusted

canDouble(g) ==
  /\ g.state = PLAYER_TURN
  /\ HandCanDouble(currentHand(g), FALSE)
  /\ currentHand(g).bet <= g.balance
  /\ ~currentHand(g).isStood

canSplit(g) ==
  IF g.state # PLAYER_TURN THEN FALSE
  ELSE IF ~HandCanSplit(currentHand(g)) THEN FALSE
  ELSE IF currentHand(g).bet > g.balance THEN FALSE
  ELSE IF Len(g.playerHands) >= MAX_SPLIT_HANDS THEN FALSE
  ELSE TRUE

canSurrender(g) ==
  /\ g.state = PLAYER_TURN
  /\ g.settings.surrenderAllowed
  /\ Len(currentHand(g).cards) = 2
  /\ ~currentHand(g).isSplit

\* ----------------------------------------------------------- the advisor

\* A true count as the advisor is passed it: null, or a number.
NoCount == [null |-> TRUE, n |-> 0]

Counted(n) == [null |-> FALSE, n |-> n]

\* DEVIATION_INDICES: the entries with the key `${playerValue}_${dealerValue}`
\* (belowAction "none" where the entry has none).  The entry 'insurance' is
\* left out: no lookup builds that key.
DEVIATION_INDICES ==
  LET At(player, dealer, threshold, action, belowAction) ==
        [player |-> player, dealer |-> dealer, threshold |-> threshold,
         action |-> action, belowAction |-> belowAction]
  IN {At(16, 10, 0, "STAND", "none"),
      At(15, 10, 4, "STAND", "none"),
      At(10, 10, 4, "DOUBLE", "none"),
      At(12, 3, 2, "STAND", "none"),
      At(12, 2, 3, "STAND", "none"),
      At(11, 11, 1, "DOUBLE", "none"),
      At(9, 2, 1, "DOUBLE", "none"),
      At(10, 11, 4, "DOUBLE", "none"),
      At(9, 7, 3, "DOUBLE", "none"),
      At(16, 9, 5, "STAND", "none"),
      At(13, 2, -1, "STAND", "none"),
      At(12, 4, 0, "STAND", "HIT"),
      At(12, 5, -2, "STAND", "HIT"),
      At(12, 6, -1, "STAND", "HIT"),
      At(13, 3, -2, "STAND", "HIT")}

\* DEVIATION_INDICES: the entries with the key `TT_${dealerValue}`
TEN_PAIR_INDICES ==
  {[dealer |-> 5, threshold |-> 5, action |-> "SPLIT"],
   [dealer |-> 6, threshold |-> 4, action |-> "SPLIT"]}

\* checkDeviationIndex; "none" is null
checkDeviationIndex(playerHand, dealerValue, trueCount, canDoubleNow, canSplitNow) ==
  LET playerValue == getValue(playerHand)
      isPair == HandCanSplit(playerHand)
      tens == {d \in TEN_PAIR_INDICES : d.dealer = dealerValue}
      devs == {d \in DEVIATION_INDICES :
                 d.player = playerValue /\ d.dealer = dealerValue}
      tenPair == /\ isPair
                 /\ getCardValue(playerHand.cards[1].rank) = 10
                 /\ canSplitNow
                 /\ \E d \in tens : trueCount >= d.threshold
  IN IF tenPair THEN (CHOOSE d \in tens : TRUE).action
     ELSE IF devs = {} THEN "none"
     ELSE LET dev == CHOOSE d \in devs : TRUE
          IN IF dev.belowAction # "none" /\ trueCount < dev.threshold
             THEN dev.belowAction
             ELSE IF trueCount >= dev.threshold
             THEN (IF dev.action = "DOUBLE" /\ ~canDoubleNow THEN "none"
                   ELSE IF dev.action = "SPLIT" /\ ~canSplitNow THEN "none"
                   ELSE dev.action)
             ELSE "none"

\* pairStrategy[pairRank]
PairStrategy(pairRank, dealerValue, canDoubleNow) ==
  CASE pairRank \in {"A", "8"} -> "SPLIT"
    [] pairRank \in {"2", "3", "7"} -> (IF dealerValue <= 7 THEN "SPLIT" ELSE "HIT")
    [] pairRank = "4" -> (IF dealerValue \in {5, 6} THEN "SPLIT" ELSE "HIT")
    [] pairRank = "5" -> (IF dealerValue <= 9 /\ canDoubleNow THEN "DOUBLE" ELSE "HIT")
    [] pairRank = "6" -> (IF dealerValue <= 6 THEN "SPLIT" ELSE "HIT")
    [] pairRank = "9" -> (IF dealerValue \in {7, 10, 11} THEN "STAND" ELSE "SPLIT")
    [] pairRank \in {"10", "J", "Q", "K"} -> "STAND"

\* getBasicStrategyRecommendation from `if (isSoft)` on
TotalStrategy(playerValue, soft, dealerValue, canDoubleNow, canSurrenderNow) ==
  IF soft THEN
    IF playerValue >= 19 THEN "STAND"
    ELSE IF playerValue = 18 THEN
      (IF dealerValue <= 6 /\ canDoubleNow THEN "DOUBLE"
       ELSE IF dealerValue <= 8 THEN "STAND" ELSE "HIT")
    ELSE IF playerValue = 17 THEN
      (IF dealerValue >= 3 /\ dealerValue <= 6 /\ canDoubleNow THEN "DOUBLE" ELSE "HIT")
    ELSE IF playerValue >= 15 /\ playerValue <= 16 THEN
      (IF dealerValue >= 4 /\ dealerValue <= 6 /\ canDoubleNow THEN "DOUBLE" ELSE "HIT")
    ELSE IF playerValue >= 13 /\ playerValue <= 14 THEN
      (IF dealerValue >= 5 /\ dealerValue <= 6 /\ canDoubleNow THEN "DOUBLE" ELSE "HIT")
    ELSE "HIT"
  ELSE IF playerValue >= 17 THEN "STAND"
  ELSE IF playerValue >= 13 /\ playerValue <= 16 THEN
    (IF dealerValue <= 6 THEN "STAND"
     ELSE IF playerValue = 16 /\ canSurrenderNow /\ dealerValue >= 9 THEN "SURRENDER"
     ELSE IF playerValue = 15 /\ canSurrenderNow /\ dealerValue = 10 THEN "SURRENDER"
     ELSE "HIT")
  ELSE IF playerValue = 12 THEN
    (IF dealerValue >= 4 /\ dealerValue <= 6 THEN "STAND" ELSE "HIT")
  ELSE IF playerValue = 11 THEN (IF canDoubleNow THEN "DOUBLE" ELSE "HIT")
  ELSE IF playerValue = 10 THEN
    (IF dealerValue <= 9 /\ canDoubleNow THEN "DOUBLE" ELSE "HIT")
  ELSE IF playerValue = 9 THEN
    (IF dealerValue >= 3 /\ dealerValue <= 6 /\ canDoubleNow THEN "DOUBLE" ELSE "HIT")
  ELSE "HIT"

\* getBasicStrategyRecommendation whose deviation lookup is told that
\* doubling is available
getBasicStrategyRecommendationDoubleAnyway(playerHand, dealerUpCard, canDoubleNow, canSplitNow, canSurrenderNow, trueCount) ==
  LET dealerValue == getCardValue(dealerUpCard.rank)
      deviation == IF trueCount.null THEN "none"
                   ELSE checkDeviationIndex(playerHand, dealerValue, trueCount.n,
                                            TRUE, canSplitNow)
  IN IF deviation # "none" THEN deviation
     ELSE IF HandCanSplit(playerHand) /\ canSplitNow
     THEN PairStrategy(playerHand.cards[1].rank, dealerValue, canDoubleNow)
     ELSE TotalStrategy(getValue(playerHand), isSoft(playerHand), dealerValue,
                        canDoubleNow, canSurrenderNow)

getBasicStrategyRecommendation(playerHand, dealerUpCard, canDoubleNow, canSplitNow, canSurrenderNow, trueCount) ==
  LET playerValue == getValue(playerHand)
      dealerValue == getCardValue(dealerUpCard.rank)
      soft == isSoft(playerHand)
      isPair == HandCanSplit(playerHand)
      deviation == IF trueCount.null THEN "none"
                   ELSE checkDeviationIndex(playerHand, dealerValue, trueCount.n,
                                            canDoubleNow, canSplitNow)
  IN IF deviation # "none" THEN deviation
     ELSE IF isPair /\ canSplitNow
     THEN PairStrategy(playerHand.cards[1].rank, dealerValue, canDoubleNow)
     ELSE TotalStrategy(playerValue, soft, dealerValue, canDoubleNow, canSurrenderNow)

\* getDeviationInfo(playerHand, dealerValue, trueCount): isDeviation,
\* threshold and action of the object it returns (`reason` is a text made
\* of the count and the threshold)
getDeviationInfo(playerHand, dealerValue, trueCount) ==
  LET playerValue == getValue(playerHand)
      isPair == HandCanSplit(playerHand)
      tens == {d \in TEN_PAIR_INDICES : d.dealer = dealerValue}
      devs == {d \in DEVIATION_INDICES :
                 d.player = playerValue /\ d.dealer = dealerValue}
      tenPair == /\ isPair
                 /\ getCardValue(playerHand.cards[1].rank) = 10
                 /\ \E d \in tens : trueCount >= d.threshold
      Info(threshold, action) ==
        [isDeviation |-> TRUE, threshold |-> threshold, action |-> action]
      NoInfo == [isDeviation |-> FALSE, threshold |-> 0, action |-> "none"]
  IN IF tenPair
     THEN LET dev == CHOOSE d \in tens : TRUE IN Info(dev.threshold, dev.action)
     ELSE IF devs = {} THEN NoInfo
     ELSE LET dev == CHOOSE d \in devs : TRUE
          IN IF dev.belowAction # "none" /\ trueCount < dev.threshold
             THEN Info(dev.threshold, dev.belowAction)
             ELSE IF trueCount >= dev.threshold
             THEN Info(dev.threshold, dev.action)
             ELSE NoInfo

\* BlackjackGame.getStrategyHint(); "none" is null
getStrategyHint(g) ==
  IF g.state # PLAYER_TURN THEN "none"
  ELSE getBasicStrategyRecommendation(
         currentHand(g), g.dealerHand.cards[1], canDouble(g), canSplit(g),
         canSurrender(g),
         IF g.settings.countingEnabled THEN Counted(getTrueCount(g.deck))
         ELSE NoCount)

\* BlackjackGame.getDeviationInfo()
GameDeviationInfo(g) ==
  IF g.state # PLAYER_TURN \/ ~g.settings.countingEnabled
  THEN [isDeviation |-> FALSE, threshold |-> 0, action |-> "none"]
  ELSE getDeviationInfo(currentHand(g), getCardValue(g.dealerHand.cards[1].rank),
                        getTrueCount(g.deck))

\* The continuation of an async method from the place `pc` on, up to its
\* next await.
Continue(g, pc, rank) ==
  CASE pc = "deal1" -> dealCardToHand(g, "dealer", TRUE, rank, "deal2")
    [] pc = "deal2" -> dealCardToHand(g, "player", TRUE, rank, "deal3")
    [] pc = "deal3" -> dealCardToHand(g, "dealer", ~g.settings.dealerHoleCard, rank, "deal4")
    [] pc = "deal4" -> DealFinish(g)
    [] pc = "hit1" -> HitAfter(g, rank)
    [] pc = "double1" -> DoubleAfter(g, rank)
    [] pc = "split1" -> Done(g)
    [] pc = "hhc1" -> Done(g)
    [] pc = "dealer_loop" -> DealerLoop(g)
    [] pc = "dealer_delay" -> dealCardToHand(g, "dealer", TRUE, rank, "dealer_loop")

\* ------------------------------------------------------------ the machine

\* Amounts the caller passes to placeBet: below settings.minBet, a stake,
\* above the balance, above settings.maxBet.
Amounts == {5, 100, 15000, 25000}

\* The ranks a behaviour draws from the shuffled shoe (the shoe holds all of
\* RANKS; a behaviour of the model meets the cards of one of these sets).
RankSets == {{"A", "K"}, {"6", "7", "K"}}

RankSetsSplit == {{"8", "K"}}

RankSetsRounds == {{"A", "K"}}

VARIABLES
  game,          \* the BlackjackGame object
  tasks,         \* the continuations of the async methods in flight
  betBase,       \* balance and statistics right before the last successful placeBet
  dealsSinceBet, \* calls of deal() that passed its guard since then
  scope,         \* what the behaviour explores: the ranks it draws, its budgets
  hits,          \* calls of hit() and double() that reached the shoe so far
  deals,         \* calls of deal() that passed its guard so far
  bets,          \* successful calls of placeBet() since the last newRound()
  newRounds,     \* calls of newRound() so far
  ret,           \* the value the last query call returned
  twin           \* a second run of the same calls on a shoe with another hole card

vars == <<game, tasks, betBase, dealsSinceBet, scope, hits, deals, bets, newRounds, ret, twin>>

Start(g, sc) ==
  /\ game = g
  /\ tasks = <<>>
  /\ betBase = [balance |-> g.balance, stats |-> g.stats]
  /\ dealsSinceBet = 0
  /\ scope = sc
  /\ hits = 0
  /\ deals = 0
  /\ bets = 0
  /\ newRounds = 0
  /\ ret = [op |-> "none"]
  /\ twin = [g |-> g, tasks |-> <<>>]

\* One round dealt from the freshly constructed engine.
Init ==
  \E ranks \in RankSets :
    Start(NewGame, [ranks |-> ranks, hits |-> MaxHits, hands |-> MaxHands,
                    deals |-> 1, bets |-> 1])

\* One round in which split() is called again and again.
InitSplit ==
  \E ranks \in RankSetsSplit :
    Start(NewGame, [ranks |-> ranks, hits |-> 0, hands |-> MaxHandsSplit,
                    deals |-> 1, bets |-> 1])

\* Several calls of placeBet() and deal().
InitRounds ==
  \E ranks \in RankSetsRounds :
    Start(NewGame, [ranks |-> ranks, hits |-> 0, hands |-> 1,
                    deals |-> MaxDeals, bets |-> MaxBets])

\* The settings the constructor finds in storage (loadSettings merges the
\* stored entry over the defaults): the defaults, or the defaults with one
\* rule switched.
RuleSets ==
  {DefaultSettings,
   [DefaultSettings EXCEPT !.insuranceAllowed = FALSE],
   [DefaultSettings EXCEPT !.dealerHoleCard = FALSE],
   [DefaultSettings EXCEPT !.dealerHitsSoft17 = FALSE],
   [DefaultSettings EXCEPT !.surrenderAllowed = FALSE]}

RankSetsRules == {{"A", "5"}, {"A", "6"}, {"A", "K"}}

\* The engine constructed against a storage whose settings entry is
\* `settings`.
LoadedGame(settings) ==
  [NewGame EXCEPT !.settings = settings, !.saved.settings = settings]

\* One round under each of the rule sets; the player asks for one card at
\* most.
InitRules ==
  \E ranks \in RankSetsRules, settings \in RuleSets :
    Start(LoadedGame(settings),
          [ranks |-> ranks, hits |-> 1, hands |-> 1, deals |-> 1, bets |-> 1])

RankSetsAsync == {{"6", "K"}}

\* One round played by a caller who does not await the methods he calls.
InitAsync ==
  \E ranks \in RankSetsAsync :
    Start(NewGame, [ranks |-> ranks, hits |-> MaxHits, hands |-> 1,
                    deals |-> 1, bets |-> 1])

\* What a step draws: the step is tried with no card first; it is "invalid"
\* exactly when it asks a shoe that is not empty for a card.
Outcomes(F(_)) ==
  IF F("none").pc # "invalid" THEN {F("none")}
  ELSE {F(rank) : rank \in {x \in scope.ranks : F(x).pc # "invalid"}}

Spawn(ts, pc) == IF pc \in {"done", "thrown"} THEN ts ELSE Append(ts, pc)

RemoveAt(ts, i) == SubSeq(ts, 1, i - 1) \o SubSeq(ts, i + 1, Len(ts))

PlaceBet(amount) ==
  LET r == placeBet(game, amount)
  IN /\ r.ret => bets < scope.bets
     /\ game' = r.g
     /\ betBase' = IF r.ret THEN [balance |-> game.balance, stats |-> game.stats]
                   ELSE betBase
     /\ dealsSinceBet' = IF r.ret THEN 0 ELSE dealsSinceBet
     /\ bets' = IF r.ret THEN bets + 1 ELSE bets
     /\ UNCHANGED <<tasks, scope, hits, deals, newRounds, ret, twin>>

Deal ==
  LET F(rank) == deal(game, rank)
      passed == game.currentBet # 0
  IN /\ passed => deals < scope.deals
     /\ \E r \in Outcomes(F) :
          /\ game' = r.g
          /\ tasks' = Spawn(tasks, r.pc)
     /\ deals' = IF passed THEN deals + 1 ELSE deals
     /\ dealsSinceBet' = IF passed THEN dealsSinceBet + 1 ELSE dealsSinceBet
     /\ UNCHANGED <<betBase, scope, hits, bets, newRounds, ret, twin>>

InsuranceDecision(take) ==
  LET r == handleInsuranceDecision(game, take)
  IN /\ game' = r.g
     /\ UNCHANGED <<tasks, betBase, dealsSinceBet, scope, hits, deals, bets, newRounds, ret, twin>>

\* A call of a player method F; `costs` is what it takes from the budget of
\* hits when it gets as far as the shoe.
PlayerCall(F(_), costs) ==
  \E r \in Outcomes(F) :
    /\ game' = r.g
    /\ tasks' = Spawn(tasks, r.pc)
    /\ hits' = hits + costs
    /\ UNCHANGED <<betBase, dealsSinceBet, scope, deals, bets, newRounds, ret, twin>>

Hit ==
  LET F(rank) == hit(game, rank)
      asks == game.state = PLAYER_TURN
  IN /\ asks => hits < scope.hits
     /\ PlayerCall(F, IF asks THEN 1 ELSE 0)

Double ==
  LET F(rank) == double(game, rank)
      asks == canDouble(game) \/ (game.state = PLAYER_TURN /\ F("none").pc = "invalid")
  IN /\ asks => hits < scope.hits
     /\ PlayerCall(F, IF asks THEN 1 ELSE 0)

Split ==
  LET F(rank) == split(game, rank)
      asks == F("none").pc \in {"invalid", "thrown"}
  IN /\ asks => Len(game.playerHands) < scope.hands
     /\ PlayerCall(F, 0)

Stand ==
  LET F(rank) == stand(game, rank)
  IN PlayerCall(F, 0)

Surrender ==
  LET F(rank) == surrender(game, rank)
  IN PlayerCall(F, 0)

NewRound ==
  /\ newRounds < MaxNewRounds
  /\ game' = newRound(game)
  /\ bets' = 0
  /\ newRounds' = newRounds + 1
  /\ UNCHANGED <<tasks, betBase, dealsSinceBet, scope, hits, deals, ret, twin>>

\* A suspended method goes on: its notification or pacing delay completed.
Resume ==
  \E i \in 1..Len(tasks) :
    LET F(rank) == Continue(game, tasks[i], rank)
    IN \E r \in Outcomes(F) :
         /\ game' = r.g
         /\ tasks' = IF r.pc \in {"done", "thrown"} THEN RemoveAt(tasks, i)
                     ELSE [tasks EXCEPT ![i] = r.pc]
         /\ UNCHANGED <<betBase, dealsSinceBet, scope, hits, deals, bets, newRounds, ret, twin>>

Call ==
  \/ \E amount \in Amounts : PlaceBet(amount)
  \/ Deal
  \/ \E take \in BOOLEAN : InsuranceDecision(take)
  \/ Hit
  \/ Stand
  \/ Double
  \/ Split
  \/ Surrender
  \/ NewRound

\* The caller awaits every method it calls (as the handlers of the page do):
\* it calls the next one when none is in flight.
Next ==
  \/ tasks = <<>> /\ Call
  \/ Resume

Spec == Init /\ [][Next]_vars

SpecSplit == InitSplit /\ [][Next]_vars

SpecRounds == InitRounds /\ [][Next]_vars

SpecRules == InitRules /\ [][Next]_vars

\* A caller who calls a method while others are suspended at their
\* notification or pacing delay (an event handler run on a second click):
\* every call runs up to its first await at once, as a call of an async
\* function does.
NextAsync ==
  \/ Len(tasks) < MaxTasks /\ game.balance < BalanceCap /\ Call
  \/ Resume

SpecAsync == InitAsync /\ [][NextAsync]_vars

\* A caller who does not await deal() and calls it again.
InitRedeal ==
  \E ranks \in RankSetsAsync :
    Start(NewGame, [ranks |-> ranks, hits |-> 0, hands |-> 1,
                    deals |-> MaxDeals, bets |-> 1])

SpecRedeal == InitRedeal /\ [][NextAsync]_vars

\* ---------------------------------------------------- the Deck on its own

\* The counts a caller passes to setDeckCount.
DeckCounts == {1, 2}

RankSetsDeck == {{"A", "K"}}

\* A Deck as `new Deck()` leaves it, before any shuffle.
InitDeck ==
  \E ranks \in RankSetsDeck :
    Start([NewGame EXCEPT !.deck = NewDeck(DEFAULT_DECK_COUNT)],
          [ranks |-> ranks, hits |-> 0, hands |-> 1, deals |-> MaxDeckDeals,
           bets |-> 0])

DeckStep(deck) ==
  /\ game' = [game EXCEPT !.deck = deck]
  /\ UNCHANGED <<tasks, betBase, dealsSinceBet, scope, hits, bets, newRounds, ret, twin>>

DeckOpInitialize == DeckStep(DeckInitialize(game.deck)) /\ UNCHANGED deals

DeckOpShuffle == DeckStep(DeckShuffle(game.deck)) /\ UNCHANGED deals

\* deal(): the card on top of the pile, or null from an empty pile
DeckOpDeal ==
  /\ deals < scope.deals
  /\ deals' = deals + 1
  /\ IF CanDraw(game.deck, "none") THEN DeckStep(game.deck)
     ELSE \E rank \in scope.ranks :
            CanDraw(game.deck, rank) /\ DeckStep(DeckDeal(game.deck, rank))

DeckOpReshuffle == DeckStep(DeckReshuffle(game.deck)) /\ UNCHANGED deals

DeckOpSetDeckCount(count) ==
  DeckStep(setDeckCount(game.deck, count)) /\ UNCHANGED deals

NextDeck ==
  \/ DeckOpInitialize
  \/ DeckOpShuffle
  \/ DeckOpDeal
  \/ DeckOpReshuffle
  \/ \E count \in DeckCounts : DeckOpSetDeckCount(count)

SpecDeck == InitDeck /\ [][NextDeck]_vars

\* ---------------------------------------------------- the Hand on its own

\* A Hand as `new Hand()` leaves it; split() flags the hands it makes before
\* it gives them their cards.
InitHand ==
  \E ranks \in {RANKS} :
    Start(NewGame, [ranks |-> ranks, hits |-> MaxCards, hands |-> 1,
                    deals |-> 0, bets |-> 0])

HandStep(hand) ==
  /\ game' = [game EXCEPT !.playerHands[1] = hand]
  /\ UNCHANGED <<tasks, betBase, dealsSinceBet, scope, deals, bets, newRounds, twin>>

\* hand.isSplit = true, as split() sets it on a hand without cards yet
HandOpFlagSplit ==
  /\ game.playerHands[1].cards = <<>>
  /\ ~game.playerHands[1].isSplit
  /\ HandStep([game.playerHands[1] EXCEPT !.isSplit = TRUE])
  /\ UNCHANGED <<hits, ret>>

HandOpAddCard(rank) ==
  /\ hits < scope.hits
  /\ hits' = hits + 1
  /\ HandStep(addCard(game.playerHands[1], createCard(rank)))
  /\ ret' = [op |-> "addCard"]

\* getValue(), isSoft() and isBlackjack() of the hand as it is
HandOpRead ==
  /\ ret' = [op |-> "hand", hand |-> game.playerHands[1],
             value |-> getValue(game.playerHands[1]),
             soft |-> isSoft(game.playerHands[1]),
             blackjack |-> isBlackjack(game.playerHands[1])]
  /\ UNCHANGED <<game, tasks, betBase, dealsSinceBet, scope, hits, deals, bets,
                 newRounds, twin>>

NextHand ==
  \/ HandOpFlagSplit
  \/ \E rank \in scope.ranks : HandOpAddCard(rank)
  \/ HandOpRead

SpecHand == InitHand /\ [][NextHand]_vars

\* ------------------------------------------------ the count of the shoe

\* The shoe of `count` decks after the cards of `dealt` were dealt face-up.
ShoeAfter(count, dealt) ==
  LET deck == NewDeck(count)
      weight == COUNTING_SYSTEMS[deck.countingSystem]
  IN [deck EXCEPT !.cards = [r \in RANKS |-> @[r] - dealt[r]],
                  !.dealtCards = dealt,
                  !.runningCount =
                    BagSize([r \in RANKS |-> weight[r] * dealt[r]])]

\* Shoes in the middle of a session: six decks with 218 cards left and a
\* count of 25, four decks with 122 cards left and a count of -13, one deck
\* with 27 cards left and a count of 20.
CountShoes ==
  {ShoeAfter(6, [EmptyBag EXCEPT !["2"] = 12, !["3"] = 12, !["4"] = 12,
                                 !["6"] = 12, !["7"] = 23, !["Q"] = 23]),
   ShoeAfter(4, [EmptyBag EXCEPT !["10"] = 16, !["J"] = 16, !["Q"] = 16,
                                 !["2"] = 16, !["3"] = 16, !["4"] = 3,
                                 !["7"] = 3]),
   ShoeAfter(1, [EmptyBag EXCEPT !["2"] = 4, !["3"] = 4, !["4"] = 4,
                                 !["5"] = 4, !["6"] = 4, !["7"] = 4,
                                 !["9"] = 1])}

RankSetsCount == {{"5", "8", "K"}}

InitCount ==
  \E ranks \in RankSetsCount, deck \in CountShoes :
    Start([NewGame EXCEPT !.deck = deck, !.settings.deckCount = deck.deckCount],
          [ranks |-> ranks, hits |-> 0, hands |-> 1, deals |-> MaxCountDeals,
           bets |-> 0])

\* deal() of a card that goes face-up on the table, and updateCount(card)
CountOpDeal(rank) ==
  /\ deals < scope.deals
  /\ CanDraw(game.deck, rank)
  /\ deals' = deals + 1
  /\ game' = [game EXCEPT !.deck = updateCount(DeckDeal(@, rank), createCard(rank))]
  /\ ret' = [op |-> "deal", rank |-> rank]
  /\ UNCHANGED <<tasks, betBase, dealsSinceBet, scope, hits, bets, newRounds, twin>>

CountOpTrueCount ==
  /\ ret' = [op |-> "getTrueCount", value |-> getTrueCount(game.deck)]
  /\ UNCHANGED <<game, tasks, betBase, dealsSinceBet, scope, hits, deals, bets,
                 newRounds, twin>>

NextCount ==
  \/ \E rank \in scope.ranks : CountOpDeal(rank)
  \/ CountOpTrueCount

SpecCount == InitCount /\ [][NextCount]_vars

\* ------------------------------------------------- the end of the shoe

\* The levels the caller passes to setPenetration.
Penetrations == {75, 100}

RankSetsShoe == {{"6", "K"}}

\* A single deck late in a session: 44 cards were dealt in earlier rounds,
\* the four sixes and the four kings are left.
LateShoe ==
  ShoeAfter(1, [r \in RANKS |-> IF r \in {"6", "K"} THEN 0 ELSE SUIT_COUNT])

\* updateSettings({deckCount: 1}) and deck.setPenetration(level) on the
\* settings page, then rounds that have used up the shoe as far as LateShoe.
InitShoe ==
  \E ranks \in RankSetsShoe, pct \in Penetrations :
    Start([LoadedGame([DefaultSettings EXCEPT !.deckCount = 1])
             EXCEPT !.deck = setPenetration(LateShoe, pct)],
          [ranks |-> ranks, hits |-> MaxHits, hands |-> 1, deals |-> MaxDeals,
           bets |-> MaxBets])

SpecShoe == InitShoe /\ [][Next]_vars

\* ------------------------------------------- the advisor on its own

\* The true counts the advisor is asked with: none, and the counts around
\* the thresholds of DEVIATION_INDICES.
TrueCounts == {NoCount} \cup {Counted(n) : n \in -3..6}

\* A player hand to be given its cards and a dealer hand with its up-card.
InitRecommend ==
  \E upCard \in RANKS :
    Start([NewGame EXCEPT !.dealerHand = addCard(NewHand, createCard(upCard))],
          [ranks |-> RANKS, hits |-> MaxAdviceCards, hands |-> 1, deals |-> 0,
           bets |-> 0])

\* The advisor is asked once about each hand: it reads its arguments only,
\* and a second call returns what the first did.
RecommendOp(canDoubleNow, canSplitNow, canSurrenderNow, trueCount) ==
  /\ ret.op # "recommend"
  /\ ret' = [op |-> "recommend", canDouble |-> canDoubleNow,
             canSplit |-> canSplitNow, canSurrender |-> canSurrenderNow,
             trueCount |-> trueCount,
             value |-> getBasicStrategyRecommendation(
                         game.playerHands[1], game.dealerHand.cards[1],
                         canDoubleNow, canSplitNow, canSurrenderNow, trueCount)]
  /\ UNCHANGED <<game, tasks, betBase, dealsSinceBet, scope, hits, deals, bets,
                 newRounds, twin>>

NextRecommend ==
  \/ \E rank \in scope.ranks : HandOpAddCard(rank)
  \/ \E canDoubleNow \in BOOLEAN, canSplitNow \in BOOLEAN,
        canSurrenderNow \in BOOLEAN, trueCount \in TrueCounts :
        RecommendOp(canDoubleNow, canSplitNow, canSurrenderNow, trueCount)

SpecRecommend == InitRecommend /\ [][NextRecommend]_vars

\* ------------------------------------------- the advisor during a round

RankSetsAdvice == {{"2", "3"}}

\* One round with the countingEnabled setting on, the player asking for one
\* card at most.
InitAdvice ==
  \E ranks \in RankSetsAdvice :
    Start(LoadedGame([DefaultSettings EXCEPT !.countingEnabled = TRUE]),
          [ranks |-> ranks, hits |-> 1, hands |-> 1, deals |-> 1, bets |-> 1])

\* getStrategyHint() and getDeviationInfo(), as the page calls them to
\* refresh its hint in the player's turn.
StrategyHintOp ==
  /\ tasks = <<>>
  /\ game.state = PLAYER_TURN
  /\ ret' = [op |-> "getStrategyHint", value |-> getStrategyHint(game)]
  /\ UNCHANGED <<game, tasks, betBase, dealsSinceBet, scope, hits, deals, bets,
                 newRounds, twin>>

DeviationInfoOp ==
  /\ tasks = <<>>
  /\ game.state = PLAYER_TURN
  /\ ret' = [op |-> "getDeviationInfo", value |-> GameDeviationInfo(game)]
  /\ UNCHANGED <<game, tasks, betBase, dealsSinceBet, scope, hits, deals, bets,
                 newRounds, twin>>

NextAdvice ==
  \/ Next
  \/ StrategyHintOp
  \/ DeviationInfoOp

SpecAdvice == InitAdvice /\ [][NextAdvice]_vars

\* ------------------------------------------------- the stored entries

\* CONFIG.EXPIRATION_MS = 7 * 24 * 60 * 60 * 1000
EXPIRATION_MS == 604800000

\* JavaScript values as JSON.parse returns them and as a field holds them.
JsUndefined == [type |-> "undefined"]

JsNull == [type |-> "null"]

JsNumber(n) == [type |-> "number", n |-> n]

\* a string that is not empty
JsText == [type |-> "string"]

JsObject(fields) == [type |-> "object", fields |-> fields]

Truthy(v) ==
  CASE v.type \in {"undefined", "null"} -> FALSE
    [] v.type = "number" -> v.n # 0
    [] v.type \in {"string", "object"} -> TRUE

\* What localStorage holds under a key: nothing, a text JSON.parse rejects,
\* or a wrapper object.  `stamped` tells whether the wrapper has a timestamp,
\* `age` is Date.now() minus that timestamp and `data` the payload
\* (JsUndefined when the wrapper has none).
MissingEntry == [kind |-> "missing"]

UnparsableEntry == [kind |-> "unparsable"]

Wrapper(stamped, age, data) ==
  [kind |-> "wrapper", stamped |-> stamped, age |-> age, data |-> data]

\* loadWithExpiration(key): the value returned and the entry left under the
\* key
loadWithExpiration(entry) ==
  IF entry.kind = "missing" THEN [data |-> JsNull, entry |-> entry]
  ELSE IF entry.kind = "unparsable" THEN [data |-> JsNull, entry |-> entry]
  ELSE IF ~entry.stamped \/ entry.age > EXPIRATION_MS
    THEN [data |-> JsNull, entry |-> MissingEntry]
  ELSE [data |-> entry.data, entry |-> entry]

refreshTimestamp(entry) ==
  IF entry.kind = "wrapper" THEN [entry EXCEPT !.stamped = TRUE, !.age = 0]
  ELSE entry

\* { ...target, ...saved }: the fields of an object payload over those of
\* the target; a number has no fields to copy, and the keys '0', '1', ... a
\* string adds are read nowhere.
Spread(target, saved) ==
  IF saved.type # "object" THEN target
  ELSE [k \in DOMAIN target |->
          IF k \in DOMAIN saved.fields THEN saved.fields[k] ELSE target[k]]

setCountingSystem(deck, system) ==
  IF system \in DOMAIN COUNTING_SYSTEMS THEN [deck EXCEPT !.countingSystem = system]
  ELSE deck

loadBalance(g) ==
  LET r == loadWithExpiration(g.saved.balance)
      g1 == [g EXCEPT !.saved.balance = r.entry]
  IN IF r.data # JsNull THEN [g1 EXCEPT !.balance = r.data] ELSE g1

loadSettings(g) ==
  LET r == loadWithExpiration(g.saved.settings)
      g1 == [g EXCEPT !.saved.settings = r.entry]
      Has(field) == r.data.type = "object" /\ field \in DOMAIN r.data.fields
  IN IF ~Truthy(r.data) THEN g1
     ELSE LET g2 == [g1 EXCEPT !.settings = Spread(@, r.data)]
              g3 == IF Has("deckCount") /\ r.data.fields.deckCount # 0
                    THEN [g2 EXCEPT !.deck = setDeckCount(@, r.data.fields.deckCount)]
                    ELSE g2
          IN IF Has("countingSystem")
             THEN [g3 EXCEPT !.deck = setCountingSystem(@, r.data.fields.countingSystem)]
             ELSE g3

loadStats(g) ==
  LET r == loadWithExpiration(g.saved.stats)
      g1 == [g EXCEPT !.saved.stats = r.entry]
  IN IF Truthy(r.data) THEN [g1 EXCEPT !.stats = Spread(@, r.data)] ELSE g1

loadAllData(g) ==
  LET g1 == loadStats(loadSettings(loadBalance(g)))
  IN [g1 EXCEPT !.saved = [balance |-> refreshTimestamp(@.balance),
                           settings |-> refreshTimestamp(@.settings),
                           stats |-> refreshTimestamp(@.stats)]]

\* The ages of the wrappers found: fresh, seven days to the millisecond,
\* one millisecond more.
EntryAges == {0, EXPIRATION_MS, EXPIRATION_MS + 1}

\* The payloads found under a key: none, one of the right shape, one of a
\* wrong shape.
Payloads ==
  [balance |-> {JsUndefined, JsNumber(500), JsText},
   settings |-> {JsUndefined, JsObject([deckCount |-> 1, countingSystem |-> "ko"]),
                 JsNumber(5)},
   stats |-> {JsUndefined, JsObject([ZeroStats EXCEPT !.handsPlayed = 3]),
              JsNumber(5)}]

StoredEntries(key) ==
  {MissingEntry, UnparsableEntry}
    \cup {Wrapper(FALSE, 0, data) : data \in Payloads[key]}
    \cup {Wrapper(TRUE, age, data) : age \in EntryAges, data \in Payloads[key]}

\* The constructor before its call of loadAllData(): the fields it has
\* assigned, the balance as the JavaScript value it is, and the storage it
\* is about to read.
InitStorage ==
  \E balance \in StoredEntries("balance"), settings \in StoredEntries("settings"),
     stats \in StoredEntries("stats") :
    /\ game = [NewGame EXCEPT !.deck = NewDeck(DEFAULT_DECK_COUNT),
                              !.balance = JsNumber(DEFAULT_BALANCE),
                              !.saved = [balance |-> balance, settings |-> settings,
                                         stats |-> stats]]
    /\ tasks = <<>>
    /\ betBase = [balance |-> DEFAULT_BALANCE, stats |-> ZeroStats]
    /\ dealsSinceBet = 0
    /\ scope = [ranks |-> {}, hits |-> 0, hands |-> 1, deals |-> 0, bets |-> 0]
    /\ hits = 0
    /\ deals = 0
    /\ bets = 0
    /\ newRounds = 0
    /\ ret = [op |-> "none"]
    /\ twin = [g |-> NewGame, tasks |-> <<>>]

\* this.loadAllData(); this.deck.shuffle(): the end of the constructor.
\* `found` is the storage it read.
ConstructorLoads ==
  /\ ret.op = "none"
  /\ game' = [loadAllData(game) EXCEPT !.deck = DeckShuffle(@)]
  /\ ret' = [op |-> "constructor", found |-> game.saved]
  /\ UNCHANGED <<tasks, betBase, dealsSinceBet, scope, hits, deals, bets, newRounds, twin>>

NextStorage == ConstructorLoads

SpecStorage == InitStorage /\ [][NextStorage]_vars

\* ------------------------------------------------ a session with a past

RankSetsReload == {{"A", "K"}, {"6", "K"}}

\* The engine constructed against a storage in which an earlier session
\* left its balance and its statistics (loadBalance and loadStats read
\* them back): the balance entry holds DEFAULT_BALANCE, the statistics
\* entry the counters at zero.
InitReload ==
  \E ranks \in RankSetsReload :
    Start([NewGame EXCEPT !.saved.balance = DEFAULT_BALANCE,
                          !.saved.stats = ZeroStats],
          [ranks |-> ranks, hits |-> 1, hands |-> 1, deals |-> 1, bets |-> 1])

SpecReload == InitReload /\ [][Next]_vars

\* ------------------------------------------------------- a short stack

\* The amounts the caller passes to addChips.
ChipAmounts == {0, 100}

RankSetsChips == {{"A", "K"}}

\* The stored balance the constructor finds: one stake and a half.
ShortStack == 150

\* The engine constructed against a storage whose balance entry holds
\* ShortStack.
InitChips ==
  \E ranks \in RankSetsChips :
    Start([NewGame EXCEPT !.balance = ShortStack, !.saved.balance = ShortStack],
          [ranks |-> ranks, hits |-> 1, hands |-> MaxHands, deals |-> 1, bets |-> 1])

AddChips(amount) ==
  /\ tasks = <<>>
  /\ game.balance + amount <= ChipsCap
  /\ game' = addChips(game, amount)
  /\ UNCHANGED <<tasks, betBase, dealsSinceBet, scope, hits, deals, bets, newRounds, ret, twin>>

NextChips ==
  \/ Next
  \/ \E amount \in ChipAmounts : AddChips(amount)

SpecChips == InitChips /\ [][NextChips]_vars

\* ------------------------------------------- the shoe handled mid-round

\* The objects the caller passes to updateSettings (the deck-count choice
\* of the settings page).
SettingsChanges == {[deckCount |-> 1], [deckCount |-> DEFAULT_DECK_COUNT]}

RankSetsTable == {{"A", "K"}}

\* updateSettings(newSettings): the fields of newSettings over the settings,
\* then the shoe rebuilt for a new deck count, the counting system switched,
\* the settings saved.
updateSettings(g, newSettings) ==
  LET g1 == [g EXCEPT !.settings =
               [k \in DOMAIN g.settings |->
                  IF k \in DOMAIN newSettings THEN newSettings[k] ELSE g.settings[k]]]
      g2 == IF "deckCount" \in DOMAIN newSettings
            THEN [g1 EXCEPT !.deck = setDeckCount(@, newSettings.deckCount)] ELSE g1
      g3 == IF "countingSystem" \in DOMAIN newSettings
            THEN [g2 EXCEPT !.deck = setCountingSystem(@, newSettings.countingSystem)]
            ELSE g2
  IN saveSettings(g3)

InitTable ==
  \E ranks \in RankSetsTable :
    Start(NewGame, [ranks |-> ranks, hits |-> 1, hands |-> 1, deals |-> 1, bets |-> 1])

Reshuffle ==
  /\ game' = reshuffle(game)
  /\ UNCHANGED <<tasks, betBase, dealsSinceBet, scope, hits, deals, bets, newRounds, ret, twin>>

UpdateSettings(newSettings) ==
  /\ game' = updateSettings(game, newSettings)
  /\ UNCHANGED <<tasks, betBase, dealsSinceBet, scope, hits, deals, bets, newRounds, ret, twin>>

\* The caller awaits every call; the two synchronous methods are called
\* between the others.
NextTable ==
  \/ Next
  \/ tasks = <<>> /\ Reshuffle
  \/ tasks = <<>> /\ \E newSettings \in SettingsChanges : UpdateSettings(newSettings)

SpecTable == InitTable /\ [][NextTable]_vars

\* ------------------------------------------- notifications that complete

RankSetsLive == {{"A", "5"}}

\* One round from the freshly constructed engine; the player asks for one
\* card at most.
InitLive ==
  \E ranks \in RankSetsLive :
    Start(NewGame, [ranks |-> ranks, hits |-> 1, hands |-> 1, deals |-> 1, bets |-> 1])

\* Every card-dealt notification and every pacing delay completes: a
\* suspended method is resumed in the end.
SpecLive == InitLive /\ [][Next]_vars /\ WF_vars(Resume)

\* -------------------------------------------------- two runs side by side

RankSetsTwin == {{"A", "6", "K"}}

\* The dealer's second card is not there yet, or lies face-down.
HoleDown(g) ==
  IF Len(g.dealerHand.cards) < 2 THEN TRUE ELSE ~g.dealerHand.cards[2].faceUp

\* Two engines freshly constructed (dealerHoleCard is on by default) in
\* front of two shoes that differ in the card the dealer gets face-down:
\* `game` plays the first shoe, `twin.g` the second, and every call is made
\* on both.
InitTwin ==
  \E ranks \in RankSetsTwin :
    Start(NewGame, [ranks |-> ranks, hits |-> MaxHits, hands |-> MaxHands,
                    deals |-> 1, bets |-> 1])

\* The cards a step of run `g` may be given: none when it asks for none.
TwinDraws(F(_, _), g) ==
  IF F(g, "none").pc # "invalid" THEN {"none"}
  ELSE {rank \in scope.ranks : F(g, rank).pc # "invalid"}

\* The same step F in both runs: the two shoes give the same card, unless
\* it is the dealer's face-down card (`hole`).
TwinStep(F(_, _), hole) ==
  \E r1 \in TwinDraws(F, game), r2 \in TwinDraws(F, twin.g) :
    /\ hole \/ r1 = r2 \/ "none" \in {r1, r2}
    /\ game' = F(game, r1).g
    /\ tasks' = Spawn(tasks, F(game, r1).pc)
    /\ twin' = [g |-> F(twin.g, r2).g, tasks |-> Spawn(twin.tasks, F(twin.g, r2).pc)]

TwinPlaceBet(amount) ==
  LET r == placeBet(game, amount)
  IN /\ r.ret => bets < scope.bets
     /\ game' = r.g
     /\ twin' = [twin EXCEPT !.g = placeBet(twin.g, amount).g]
     /\ bets' = IF r.ret THEN bets + 1 ELSE bets
     /\ UNCHANGED <<tasks, betBase, dealsSinceBet, scope, hits, deals, newRounds, ret>>

TwinDeal ==
  LET F(g, rank) == deal(g, rank)
      passed == game.currentBet # 0
  IN /\ passed => deals < scope.deals
     /\ TwinStep(F, FALSE)
     /\ deals' = IF passed THEN deals + 1 ELSE deals
     /\ UNCHANGED <<betBase, dealsSinceBet, scope, hits, bets, newRounds, ret>>

TwinInsuranceDecision(take) ==
  LET F(g, rank) == IF rank = "none" THEN handleInsuranceDecision(g, take)
                    ELSE [g |-> g, pc |-> "invalid"]
  IN /\ TwinStep(F, FALSE)
     /\ UNCHANGED <<betBase, dealsSinceBet, scope, hits, deals, bets, newRounds, ret>>

\* hit(), stand(), double(), split() or surrender(), called on both engines.
PlayerMethods == {"hit", "stand", "double", "split", "surrender"}

PlayerMethod(method, g, rank) ==
  CASE method = "hit" -> hit(g, rank)
    [] method = "stand" -> stand(g, rank)
    [] method = "double" -> double(g, rank)
    [] method = "split" -> split(g, rank)
    [] method = "surrender" -> surrender(g, rank)

TwinPlayerCall(method) ==
  LET F(g, rank) == PlayerMethod(method, g, rank)
      asks == F(game, "none").pc = "invalid"
  IN /\ (asks /\ method \in {"hit", "double"}) => hits < scope.hits
     /\ (asks /\ method = "split") => Len(game.playerHands) < scope.hands
     /\ TwinStep(F, FALSE)
     /\ hits' = IF asks /\ method \in {"hit", "double"} THEN hits + 1 ELSE hits
     /\ UNCHANGED <<betBase, dealsSinceBet, scope, deals, bets, newRounds, ret>>

\* The notification or pacing delay of both runs completes.
TwinResume ==
  /\ tasks # <<>>
  /\ twin.tasks # <<>>
  /\ HoleDown(game) /\ HoleDown(twin.g)
  /\ \E r1 \in TwinDraws(LAMBDA g, rank : Continue(g, tasks[1], rank), game),
        r2 \in TwinDraws(LAMBDA g, rank : Continue(g, twin.tasks[1], rank), twin.g) :
       LET o1 == Continue(game, tasks[1], r1)
           o2 == Continue(twin.g, twin.tasks[1], r2)
           Rest(ts, pc) == IF pc \in {"done", "thrown"} THEN Tail(ts)
                           ELSE [ts EXCEPT ![1] = pc]
       IN /\ tasks[1] = "deal3" \/ r1 = r2 \/ "none" \in {r1, r2}
          /\ game' = o1.g
          /\ tasks' = Rest(tasks, o1.pc)
          /\ twin' = [g |-> o2.g, tasks |-> Rest(twin.tasks, o2.pc)]
  /\ UNCHANGED <<betBase, dealsSinceBet, scope, hits, deals, bets, newRounds, ret>>

\* The caller awaits every call; the two runs are followed for as long as
\* neither has turned the dealer's second card up.
NextTwin ==
  \/ /\ tasks = <<>> /\ twin.tasks = <<>>
     /\ HoleDown(game) /\ HoleDown(twin.g)
     /\ \/ \E amount \in Amounts : TwinPlaceBet(amount)
        \/ TwinDeal
        \/ \E take \in BOOLEAN : TwinInsuranceDecision(take)
        \/ \E method \in PlayerMethods : TwinPlayerCall(method)
  \/ TwinResume

SpecTwin == InitTwin /\ [][NextTwin]_vars

\* ------------------------------------------------------------------ claims

\* The hand's total as the claims speak of it, and the cards of a hand.
Total(hand) == getValue(hand)

HoleCard(g) == g.dealerHand.cards[2]

HoleWeight(g) == COUNTING_SYSTEMS[g.deck.countingSystem][HoleCard(g).rank]

\* What deal() must leave alone when it is rejected.
RoundState(g) ==
  <<g.state, g.playerHands, g.dealerHand, g.balance, g.deck, g.stats>>

\* C1: deal() takes effect only in the BETTING phase with a nonzero placed
\* bet; called in any other phase, or with currentBet = 0, it leaves the
\* phase, the hands, the balance, the shoe and the statistics unchanged.
C1_DealOnlyInBetting ==
  [][(Deal /\ (game.state # BETTING \/ game.currentBet = 0))
       => RoundState(game') = RoundState(game)]_vars

\* C2: placeBet(amount) returns false and changes nothing when the phase is
\* not BETTING or amount < minBet or amount > maxBet or amount > balance;
\* otherwise it returns true, lowers the balance by amount, sets the stake
\* of hand 0 to amount and raises totalWagered by amount.
C2_PlaceBet ==
  \A amount \in Amounts :
    LET r == placeBet(game, amount)
        rejected == \/ game.state # BETTING
                    \/ amount < game.settings.minBet
                    \/ amount > game.settings.maxBet
                    \/ amount > game.balance
    IN IF rejected
       THEN /\ r.ret = FALSE
            /\ r.g.balance = game.balance
            /\ r.g.currentBet = game.currentBet
            /\ r.g.playerHands = game.playerHands
            /\ r.g.stats = game.stats
            /\ r.g.state = game.state
       ELSE /\ r.ret = TRUE
            /\ r.g.balance = game.balance - amount
            /\ r.g.playerHands[1].bet = amount
            /\ r.g.stats.totalWagered = game.stats.totalWagered + amount

\* C2: a bet of 100 was placed on the fresh engine.
C2_Witness ==
  /\ game.state = BETTING
  /\ bets = 1
  /\ game.currentBet = 100
  /\ game.balance = DEFAULT_BALANCE - 100
  /\ game.stats.totalWagered = 100

\* C3: a surrendered hand is refunded half of its stake, once: for a round
\* (one placeBet, one deal, no insurance) whose only hand is surrendered the
\* balance at GAME_OVER is the balance before placeBet minus half the stake.
C3_SurrenderRefundedOnce ==
  (/\ game.state = GAME_OVER
   /\ dealsSinceBet = 1
   /\ Len(game.playerHands) = 1
   /\ game.playerHands[1].isSurrendered
   /\ game.playerHands[1].insuranceBet = 0)
    => game.balance = betBase.balance - Half(game.playerHands[1].bet)

\* C4: what the claim has resolveHands credit to a hand that is not
\* surrendered, and the statistic it counts the hand in.
ClaimedCredit(hand, dealer) ==
  IF hand.isBusted THEN 0
  ELSE IF dealer.isBusted \/ Total(hand) > Total(dealer) THEN 2 * hand.bet
  ELSE IF Total(hand) = Total(dealer) THEN hand.bet
  ELSE 0

ClaimedOutcome(hand, dealer) ==
  IF hand.isBusted THEN "lost"
  ELSE IF dealer.isBusted \/ Total(hand) > Total(dealer) THEN "won"
  ELSE IF Total(hand) = Total(dealer) THEN "pushed"
  ELSE "lost"

RECURSIVE SumFrom(_, _)
SumFrom(amounts, i) ==
  IF i > Len(amounts) THEN 0 ELSE amounts[i] + SumFrom(amounts, i + 1)

SumOver(hands, F(_)) == SumFrom([k \in 1..Len(hands) |-> F(hands[k])], 1)

\* A step in which resolveHands ran: the round goes from the player's or the
\* dealer's turn to GAME_OVER.
Resolves ==
  game.state \in {PLAYER_TURN, DEALER_TURN} /\ game'.state = GAME_OVER

\* C4: resolveHands credits every hand that is not surrendered, whatever the
\* other hands are, against the one dealer total: 0 if it is busted (also
\* when the dealer is busted), else 2 x stake if the dealer is busted or the
\* hand's total is greater, 1 x stake if the totals are equal, 0 if it is
\* lower; and it counts the hand in handsWon, handsLost or handsPushed
\* accordingly.  (What the step credits to surrendered hands is set apart.)
C4_ResolveHands ==
  [][Resolves =>
      LET hands == game'.playerHands
          dealer == game'.dealerHand
          Live(h) == ~h.isSurrendered
          Credit(h) == IF Live(h) THEN ClaimedCredit(h, dealer) ELSE 0
          Count(kind) ==
            LET One(h) == IF Live(h) /\ ClaimedOutcome(h, dealer) = kind THEN 1 ELSE 0
            IN SumOver(hands, One)
          \* the refund of a surrender() made in this step, and what
          \* resolveHands adds for the surrendered hands
          Refund(h) == IF Live(h) THEN 0 ELSE HandPayout(h, Total(dealer), dealer.isBusted).payout
          surrendersNow ==
            /\ game.state = PLAYER_TURN
            /\ ~currentHand(game).isSurrendered
            /\ game'.playerHands[game.currentHandIndex + 1].isSurrendered
          refundNow == IF surrendersNow THEN Half(currentHand(game).bet) ELSE 0
      IN /\ game'.balance = game.balance + refundNow
                            + SumOver(hands, Credit) + SumOver(hands, Refund)
         /\ game'.stats.handsWon = game.stats.handsWon + Count("won")
         /\ game'.stats.handsLost = game.stats.handsLost + Count("lost")
         /\ game'.stats.handsPushed = game.stats.handsPushed + Count("pushed")
  ]_vars

\* C4: a round of two hands is over; the dealer is busted, the first hand is
\* busted too and lost, the second won.
C4_Witness ==
  /\ game.state = GAME_OVER
  /\ Len(game.playerHands) = 2
  /\ game.dealerHand.isBusted
  /\ game.playerHands[1].isBusted
  /\ ~game.playerHands[2].isBusted
  /\ game.stats.handsWon = 1
  /\ game.stats.handsLost = 1

\* A step that is handleInsuranceDecision(take) called in INSURANCE.
Decides(take) == game.state = INSURANCE /\ InsuranceDecision(take)

\* C5 as stated: after handleInsuranceDecision(take) in INSURANCE, for
\* either take and with or without a dealer blackjack, the hole card is
\* face-up and its weight has been added to the running count.
C5_HoleCardAlwaysRevealed ==
  [][\A take \in BOOLEAN :
       Decides(take) =>
         /\ HoleCard(game').faceUp
         /\ game'.deck.runningCount = game.deck.runningCount + HoleWeight(game)
  ]_vars

\* C5 amended: after handleInsuranceDecision(take) in INSURANCE, for either
\* take: when the dealer or the player has blackjack the round is over, the
\* hole card is face-up and the call has added its weight to the running
\* count; when neither has, the phase is PLAYER_TURN and the call has left
\* the hole card's faceUp flag and the running count as they were.
C5_HoleCardRevealedOnBlackjack ==
  [][\A take \in BOOLEAN :
       Decides(take) =>
         IF isBlackjack(game.dealerHand) \/ isBlackjack(currentHand(game))
         THEN /\ game'.state = GAME_OVER
              /\ HoleCard(game').faceUp
              /\ game'.deck.runningCount = game.deck.runningCount + HoleWeight(game)
         ELSE /\ game'.state = PLAYER_TURN
              /\ HoleCard(game').faceUp = HoleCard(game).faceUp
              /\ game'.deck.runningCount = game.deck.runningCount
  ]_vars

\* C5: the insurance decision was made without a blackjack on either side:
\* the player's turn began with the hole card still face-down; and (second
\* state) a dealer blackjack was revealed at the decision.
C5_Witness ==
  /\ game.state = PLAYER_TURN
  /\ tasks = <<>>
  /\ game.dealerHand.cards[1].rank = "A"
  /\ ~HoleCard(game).faceUp
  /\ Len(currentHand(game).cards) = 2
  /\ currentHand(game).insuranceBet > 0

\* C6: insurance taken (half the stake) and a dealer blackjack: the balance
\* is credited 3 x the insurance stake, the main stake comes back if the
\* player has blackjack too and is lost otherwise, the phase becomes
\* GAME_OVER; so with a player hand that is no blackjack the balance at
\* GAME_OVER is the balance before placeBet.
C6_InsuranceWon ==
  [][(/\ Decides(TRUE)
      /\ Half(currentHand(game).bet) <= game.balance
      /\ isBlackjack(game.dealerHand))
       => LET stake == currentHand(game).bet
              cost == Half(stake)
          IN /\ game'.state = GAME_OVER
             /\ currentHand(game').insuranceBet = cost
             /\ game'.balance = (game.balance - cost) + 3 * cost
                                + (IF isBlackjack(currentHand(game)) THEN stake ELSE 0)
             /\ (~isBlackjack(currentHand(game)) /\ dealsSinceBet = 1)
                  => game'.balance = betBase.balance
  ]_vars

\* C6: stake 100, insurance 50, dealer blackjack against a hand that is no
\* blackjack: the round is over and the balance is the one before the bet.
C6_Witness ==
  /\ game.state = GAME_OVER
  /\ currentHand(game).bet = 100
  /\ currentHand(game).insuranceBet = 50
  /\ isBlackjack(game.dealerHand)
  /\ ~isBlackjack(currentHand(game))
  /\ game.balance = DEFAULT_BALANCE
  /\ game.stats.handsLost = 1

\* A step in which deal() goes on after its fourth card.
DealFinishes == tasks = <<"deal4">> /\ game.state = DEALING /\ Resume

\* C7: deal() gives the player a natural and the up-card is no ace: the
\* round resolves in that step, without PLAYER_TURN: a dealer natural
\* pushes (the stake comes back); otherwise the balance is credited
\* stake x 2.5, blackjacks and handsWon go up by one and netProfit by
\* stake x 1.5.
C7_NaturalPaidAtDeal ==
  [][(/\ DealFinishes
      /\ isBlackjack(currentHand(game))
      /\ game.dealerHand.cards[1].rank # "A")
       => LET stake == currentHand(game).bet
          IN /\ game'.state = GAME_OVER
             /\ IF isBlackjack(game.dealerHand)
                THEN /\ game'.balance = game.balance + stake
                     /\ game'.stats.blackjacks = game.stats.blackjacks
                     /\ game'.stats.handsWon = game.stats.handsWon
                     /\ game'.stats.netProfit = game.stats.netProfit
                ELSE /\ 2 * game'.balance = 2 * game.balance + 5 * stake
                     /\ game'.stats.blackjacks = game.stats.blackjacks + 1
                     /\ game'.stats.handsWon = game.stats.handsWon + 1
                     /\ 2 * game'.stats.netProfit = 2 * game.stats.netProfit + 3 * stake
  ]_vars

\* C7: a natural against a dealer up-card that is no ace was paid 250 on
\* a stake of 100.
C7_Witness ==
  /\ game.state = GAME_OVER
  /\ isBlackjack(game.playerHands[1])
  /\ game.dealerHand.cards[1].rank # "A"
  /\ ~isBlackjack(game.dealerHand)
  /\ game.playerHands[1].bet = 100
  /\ game.balance = DEFAULT_BALANCE - 100 + 250
  /\ game.stats.blackjacks = 1

\* The round of C8 at its end: one bet of 100 on a balance of 10000, one
\* deal, the player stood on [K,7] against an up-card 6, the dealer busted.
C8_Round ==
  /\ game.state = GAME_OVER
  /\ betBase.balance = 10000
  /\ dealsSinceBet = 1
  /\ Len(game.playerHands) = 1
  /\ game.playerHands[1].bet = 100
  /\ Len(game.playerHands[1].cards) = 2
  /\ game.playerHands[1].cards[1].rank = "K"
  /\ game.playerHands[1].cards[2].rank = "7"
  /\ game.playerHands[1].isStood
  /\ ~game.playerHands[1].isSurrendered
  /\ game.dealerHand.cards[1].rank = "6"
  /\ Total(game.dealerHand) > 21

\* C8 as stated: from balance 10000, placeBet(100), a deal of [K,7] against
\* a 6, stand() and a dealer who busts: the balance is 10200, netProfit is
\* up by 100 and handsWon by 1.
C8_BalanceAsStated ==
  C8_Round =>
    /\ game.balance = 10200
    /\ game.stats.netProfit = betBase.stats.netProfit + 100
    /\ game.stats.handsWon = betBase.stats.handsWon + 1

\* C8 amended: from balance 10000, placeBet(100), a deal of [K,7] against
\* a 6, stand() and a dealer who busts: the balance is 10100 (10000 - 100
\* + 200), netProfit is up by 100 and handsWon by 1.
C8_StandWinsAgainstBust ==
  C8_Round =>
    /\ game.balance = 10100
    /\ game.stats.netProfit = betBase.stats.netProfit + 100
    /\ game.stats.handsWon = betBase.stats.handsWon + 1

\* C8: that round was played.
C8_Witness == C8_Round /\ game.dealerHand.isBusted

\* C9: in every reachable state the player has between 1 and 4 hands
\* (split() with four hands in play is rejected).
C9_AtMostFourHands ==
  Len(game.playerHands) >= 1 /\ Len(game.playerHands) <= MAX_SPLIT_HANDS

\* A step that is split() passing its guards.
Splits ==
  /\ game.state = PLAYER_TURN
  /\ HandCanSplit(currentHand(game))
  /\ currentHand(game).bet <= game.balance
  /\ Split

\* C10: split() on an active pair with stake s lowers the balance by s and
\* raises totalWagered by s; puts one new hand at index currentHandIndex + 1
\* with the pair's second card alone and stake s; leaves the active hand its
\* first card and one card more, fresh from the shoe and face-up, and stake
\* s; flags both hands as split; leaves currentHandIndex, the phase and the
\* other hands as they were.
C10_Split ==
  [][Splits =>
      LET i == game.currentHandIndex + 1
          old == game.playerHands
          new == game'.playerHands
          s == old[i].bet
          fresh == new[i].cards[2]
      IN /\ game'.balance = game.balance - s
         /\ game'.stats.totalWagered = game.stats.totalWagered + s
         /\ Len(new) = Len(old) + 1
         /\ new[i + 1].cards = <<old[i].cards[2]>>
         /\ new[i + 1].bet = s
         /\ new[i + 1].isSplit
         /\ Len(new[i].cards) = 2
         /\ new[i].cards[1] = old[i].cards[1]
         /\ fresh.faceUp
         /\ game'.deck.cards[fresh.rank] = game.deck.cards[fresh.rank] - 1
         /\ new[i].bet = s
         /\ new[i].isSplit
         /\ game'.currentHandIndex = game.currentHandIndex
         /\ game'.state = game.state
         /\ \A k \in 1..Len(old) :
              k # i => new[IF k < i THEN k ELSE k + 1] = old[k]
  ]_vars

\* C10: a pair was split again while a hand split off before waits behind
\* it: three hands, the active one (index 0) with two cards, the others
\* with one card each.
C10_Witness ==
  /\ tasks = <<"split1">>
  /\ game.currentHandIndex = 0
  /\ Len(game.playerHands) = 3
  /\ Len(game.playerHands[1].cards) = 2
  /\ Len(game.playerHands[2].cards) = 1
  /\ Len(game.playerHands[3].cards) = 1
  /\ \A k \in 1..3 : game.playerHands[k].isSplit /\ game.playerHands[k].bet = 100

\* C11: double() on an un-doubled two-card active hand with stake s <=
\* balance takes s, doubles the stake, gives the hand exactly one more
\* face-up card, marks it doubled and stood and completes it so that it
\* receives no further card in the round: a doubled hand holds exactly
\* three cards, in every state.
C11_DoubledHandGetsOneCard ==
  \A i \in 1..Len(game.playerHands) :
    game.playerHands[i].isDoubled => Len(game.playerHands[i].cards) = 3

\* C12: hit() has an effect only when the phase is PLAYER_TURN and the
\* active hand is neither stood nor busted (canHit() holds): it is a no-op
\* otherwise.
C12_HitOnlyOnLiveHand ==
  [][(Hit /\ ~(/\ game.state = PLAYER_TURN
               /\ ~currentHand(game).isStood
               /\ ~currentHand(game).isBusted))
       => game' = game]_vars

\* C13: surrender() changes state only when the phase is PLAYER_TURN,
\* surrender is allowed by the settings and the active hand is an untouched
\* two-card hand that was not produced by a split; in every other case the
\* balance, the hands' flags and the phase stay as they were.
C13_SurrenderOnlyIfCanSurrender ==
  [][(Surrender /\ ~(/\ game.state = PLAYER_TURN
                     /\ game.settings.surrenderAllowed
                     /\ Len(currentHand(game).cards) = 2
                     /\ ~currentHand(game).isSplit))
       => /\ game'.balance = game.balance
          /\ game'.playerHands = game.playerHands
          /\ game'.state = game.state]_vars

\* C14: while a method is suspended at a card-dealt notification or a pacing
\* delay, every further call of hit, stand, double, split, surrender, deal or
\* placeBet is rejected and leaves the round state unchanged.
C14_CallsRejectedWhileSuspended ==
  [][(/\ tasks # <<>>
      /\ \/ Hit \/ Stand \/ Double \/ Split \/ Surrender \/ Deal
         \/ \E amount \in Amounts : PlaceBet(amount))
       => RoundState(game') = RoundState(game)]_vars

\* The place of a phase in the order of the round.
PhaseOrder(state) ==
  CASE state = BETTING -> 0
    [] state = DEALING -> 1
    [] state = INSURANCE -> 2
    [] state = PLAYER_TURN -> 3
    [] state = DEALER_TURN -> 4
    [] state = PAYOUT -> 5
    [] state = GAME_OVER -> 6

\* C15: the phase only moves forward along BETTING, DEALING, INSURANCE,
\* PLAYER_TURN, DEALER_TURN, PAYOUT, GAME_OVER; the only backward move is
\* GAME_OVER to BETTING, made by newRound().
C15_PhaseMovesForward ==
  [][\/ PhaseOrder(game'.state) >= PhaseOrder(game.state)
     \/ game.state = GAME_OVER /\ game'.state = BETTING /\ NewRound]_vars

\* C16: the phase is INSURANCE only if the dealer's up-card is an ace and
\* insuranceAllowed is set; and every deal that finishes with an ace up and
\* insuranceAllowed set enters INSURANCE, the prompted cost being half the
\* stake of hand 0, before any blackjack is resolved (no payout, no
\* statistic, the hole card as dealt).
C16_InsuranceIffAceUp ==
  /\ [](game.state = INSURANCE =>
          /\ game.dealerHand.cards[1].rank = "A"
          /\ game.settings.insuranceAllowed)
  /\ [][(/\ DealFinishes
         /\ game.dealerHand.cards[1].rank = "A"
         /\ game.settings.insuranceAllowed)
          => /\ game'.state = INSURANCE
             /\ 2 * InsurancePrompt(game') = game'.playerHands[1].bet
             /\ game'.balance = game.balance
             /\ game'.stats = game.stats
             /\ game'.dealerHand = game.dealerHand
             /\ game'.playerHands = game.playerHands]_vars

\* C16: the deal finished with an ace up against a natural of the player:
\* the phase is INSURANCE and nothing was paid.
C16_Witness ==
  /\ game.state = INSURANCE
  /\ tasks = <<>>
  /\ isBlackjack(currentHand(game))
  /\ game.dealerHand.cards[1].rank = "A"
  /\ game.balance = DEFAULT_BALANCE - 100
  /\ game.stats.blackjacks = 0

\* A soft total as the glossary has it: an ace of the hand counts as 11.
ClaimedSoft(hand) ==
  /\ AceCount(hand.cards) > 0
  /\ Total(hand) = RawTotal(hand.cards) - 10 * AceCount(hand.cards) + 10

\* C17: when the dealer turn ends with a player hand neither busted nor
\* surrendered, the dealer's total is at least 17; the dealer drew no card
\* at 18 or more or at a hard 17; with dealerHitsSoft17 set the dealer never
\* finishes on a soft 17 (A,6 or A,A,5), and with it unset the dealer draws
\* no card at any 17.
C17_DealerDrawsToSeventeen ==
  [][/\ (game.state = DEALER_TURN /\ game'.state = GAME_OVER)
          => /\ Total(game'.dealerHand) >= 17
             /\ game.settings.dealerHitsSoft17
                  => ~(Total(game'.dealerHand) = 17 /\ ClaimedSoft(game'.dealerHand))
     /\ (/\ game.state = DEALER_TURN
         /\ Len(game'.dealerHand.cards) = Len(game.dealerHand.cards) + 1)
          => \/ Total(game.dealerHand) < 17
             \/ /\ Total(game.dealerHand) = 17
                /\ ClaimedSoft(game.dealerHand)
                /\ game.settings.dealerHitsSoft17]_vars

\* C18: when the last player hand completes and every player hand is
\* busted or surrendered, the dealer draws no card: the dealer's hand keeps
\* its two cards, the hole card is face-up and was counted, and the phase
\* goes from PLAYER_TURN to GAME_OVER without DEALER_TURN.
C18_NoDealerDrawWhenAllOut ==
  [][(/\ game.state = PLAYER_TURN
      /\ game'.state # PLAYER_TURN
      /\ \A i \in 1..Len(game'.playerHands) :
           game'.playerHands[i].isBusted \/ game'.playerHands[i].isSurrendered)
       => /\ game'.state = GAME_OVER
          /\ Len(game.dealerHand.cards) = 2
          /\ Len(game'.dealerHand.cards) = 2
          /\ game'.dealerHand.cards[1] = game.dealerHand.cards[1]
          /\ HoleCard(game').rank = HoleCard(game).rank
          /\ HoleCard(game').faceUp
          /\ game'.deck.runningCount = game.deck.runningCount + HoleWeight(game)
          /\ game'.deck.cards = game.deck.cards]_vars

\* C18: the only hand was surrendered and the round is over with the
\* dealer's two cards face-up.
C18_Witness ==
  /\ game.state = GAME_OVER
  /\ Len(game.playerHands) = 1
  /\ game.playerHands[1].isSurrendered
  /\ Len(game.dealerHand.cards) = 2
  /\ HoleCard(game).faceUp
  /\ game.stats.handsPlayed = 1

\* The weights of the face-up cards of a sequence of cards, each once.
RECURSIVE FaceUpWeight(_, _)
FaceUpWeight(system, cards) ==
  IF cards = <<>> THEN 0
  ELSE (IF Head(cards).faceUp THEN COUNTING_SYSTEMS[system][Head(cards).rank] ELSE 0)
       + FaceUpWeight(system, Tail(cards))

\* C19: the running count is the sum of the active system's weights over
\* the cards dealt since the last shuffle that are face-up, each counted
\* once, for either value of dealerHoleCard.  (Up to the end of the first
\* round the cards dealt since the shuffle are the cards of the hands.)
C19_RunningCountIsFaceUpSum ==
  (deals <= 1 /\ newRounds = 0)
    => game.deck.runningCount =
         FaceUpWeight(game.deck.countingSystem, game.dealerHand.cards)
         + SumFrom([k \in 1..Len(game.playerHands) |->
                      FaceUpWeight(game.deck.countingSystem, game.playerHands[k].cards)], 1)

\* C20: after any sequence of initialize, shuffle, deal, reshuffle and
\* setDeckCount the draw pile and the discard pile together hold deckCount
\* copies of every card: deckCount x 4 of each rank, deckCount x 52 in all.
C20_ShoeIsComplete ==
  /\ \A rank \in RANKS :
       game.deck.cards[rank] + game.deck.dealtCards[rank] = game.deck.deckCount * SUIT_COUNT
  /\ BagSize(game.deck.cards) + BagSize(game.deck.dealtCards)
       = game.deck.deckCount * DECK_SIZE

\* The total of the cards with every ace valued 1.
RECURSIVE HardTotal(_)
HardTotal(cards) ==
  IF cards = <<>> THEN 0
  ELSE (IF Head(cards).rank = "A" THEN 1 ELSE getCardValue(Head(cards).rank))
       + HardTotal(Tail(cards))

\* The totals obtainable by valuing each ace as 1 or 11.
Totals(cards) == {HardTotal(cards) + 10 * k : k \in 0..AceCount(cards)}

BestTotal(cards) ==
  IF \E t \in Totals(cards) : t <= 21
  THEN CHOOSE t \in Totals(cards) :
         t <= 21 /\ \A u \in Totals(cards) : u <= 21 => u <= t
  ELSE HardTotal(cards)

\* C23: getValue() is the largest total not above 21 obtainable by valuing
\* each ace as 1 or 11, and the total with every ace valued 1 when there is
\* none; the busted flag addCard leaves is true exactly when that value
\* exceeds 21.
C23_ValueIsBestTotal ==
  /\ ret.op = "hand" =>
       /\ ret.value = BestTotal(ret.hand.cards)
       /\ ret.hand.isBusted <=> ret.value > 21
  /\ game.playerHands[1].isBusted <=> BestTotal(game.playerHands[1].cards) > 21

C23_Witness ==
  /\ ret.op = "hand"
  /\ Len(ret.hand.cards) = 4
  /\ AceCount(ret.hand.cards) = 3
  /\ ret.value = 12
  /\ ~ret.hand.isBusted

\* C24: isSoft() is true exactly when the total getValue() returns values
\* one of the hand's aces as 11.
C24_SoftIffAceCountsEleven ==
  ret.op = "hand" => (ret.soft <=> ClaimedSoft(ret.hand))

\* A hand made by split() that has reached 21 on two cards.
SplitTwentyOne(hand) ==
  hand.isSplit /\ Len(hand.cards) = 2 /\ Total(hand) = 21

\* C25: isBlackjack() is true exactly for a two-card hand of value 21 that
\* is not flagged as split; a round with a split hand of 21 on two cards
\* counts no blackjack, and resolveHands pays that hand as any other hand,
\* at most 2 x its stake.
C25_SplitHandIsNoBlackjack ==
  /\ [](\A hand \in {game.playerHands[k] : k \in 1..Len(game.playerHands)}
                  \cup {game.dealerHand} :
          isBlackjack(hand) <=>
            (Len(hand.cards) = 2 /\ Total(hand) = 21 /\ ~hand.isSplit))
  /\ [][(\E k \in 1..Len(game'.playerHands) :
           SplitTwentyOne(game'.playerHands[k]))
        => /\ game'.stats.blackjacks = game.stats.blackjacks
           /\ (Resolves /\ \A k \in 1..Len(game'.playerHands) :
                             ~game'.playerHands[k].isSurrendered)
              => LET Credit(h) == ClaimedCredit(h, game'.dealerHand)
                 IN /\ game'.balance
                         = game.balance + SumOver(game'.playerHands, Credit)
                    /\ \A k \in 1..Len(game'.playerHands) :
                         Credit(game'.playerHands[k])
                           <= 2 * game'.playerHands[k].bet
       ]_vars

C25_Witness ==
  /\ game.state = GAME_OVER
  /\ Len(game.playerHands) = 2
  /\ SplitTwentyOne(game.playerHands[2])
  /\ ~game.playerHands[1].isSurrendered
  /\ Total(game.dealerHand) = 20
  /\ game.stats.blackjacks = 0
  /\ game.stats.handsWon >= 1

\* C28: newRound() sets the phase to BETTING, replaces the player hands by
\* one empty hand with stake 0, clears the dealer hand, sets currentBet and
\* currentHandIndex to 0, and leaves the balance, every statistic, the
\* settings and the shoe (draw pile, discard pile, running count) unchanged.
C28_NewRoundFrame ==
  [][newRounds' # newRounds =>
      /\ game'.state = BETTING
      /\ Len(game'.playerHands) = 1
      /\ game'.playerHands[1].cards = <<>>
      /\ game'.playerHands[1].bet = 0
      /\ game'.dealerHand.cards = <<>>
      /\ game'.currentBet = 0
      /\ game'.currentHandIndex = 0
      /\ game'.balance = game.balance
      /\ game'.stats = game.stats
      /\ game'.settings = game.settings
      /\ game'.deck.cards = game.deck.cards
      /\ game'.deck.dealtCards = game.deck.dealtCards
      /\ game'.deck.runningCount = game.deck.runningCount
  ]_vars

C28_Witness ==
  /\ newRounds = 1
  /\ game.state = BETTING
  /\ game.playerHands = <<NewHand>>
  /\ game.stats.handsPlayed = 1
  /\ game.balance # DEFAULT_BALANCE
  /\ BagSize(game.deck.dealtCards) >= 4
  /\ game.deck.runningCount # 0

\* The integer nearest to num / den, the larger one of two equally near.
Nearest(num, den) == (2 * num + den) \div (2 * den)

\* C22: getTrueCount() returns the running count unchanged when fewer than
\* 26 cards remain in the draw pile, and otherwise the integer nearest to
\* runningCount x 52 / cardsRemaining, a value exactly halfway between two
\* integers going to the larger one.
C22_TrueCount ==
  ret.op = "getTrueCount" =>
    ret.value = IF BagSize(game.deck.cards) < 26 THEN game.deck.runningCount
                ELSE Nearest(game.deck.runningCount * 52, BagSize(game.deck.cards))

\* The places at which a suspended method asks the shoe for a card next.
DrawsNext == {"deal1", "deal2", "deal3", "dealer_delay"}

\* C21: for every deck count and every penetration from 0.5 to 1.0, no card
\* is ever requested from an empty shoe: a deal or a dealer turn that is
\* about to draw finds a card in the draw pile.
C21_NoDrawFromEmptyShoe ==
  \A i \in 1..Len(tasks) :
    tasks[i] \in DrawsNext => BagSize(game.deck.cards) > 0

\* A step in which a deal() goes on after its fourth card and returns.
DealEnds ==
  \E i \in 1..Len(tasks) : tasks[i] = "deal4" /\ tasks' = RemoveAt(tasks, i)

\* C30: when deal() finishes (phase INSURANCE, PLAYER_TURN or GAME_OVER)
\* there is one player hand with two cards and the dealer has two cards; the
\* dealer's first card is face-up and the second is face-down exactly when
\* the dealerHoleCard setting is on, unless the round was resolved at once.
C30_DealLeavesTwoCardsEach ==
  [][(DealEnds /\ game'.state \in {INSURANCE, PLAYER_TURN, GAME_OVER})
      => /\ Len(game'.playerHands) = 1
         /\ Len(game'.playerHands[1].cards) = 2
         /\ Len(game'.dealerHand.cards) = 2
         /\ game'.dealerHand.cards[1].faceUp
         /\ game'.state # GAME_OVER =>
              (game'.dealerHand.cards[2].faceUp <=> ~game'.settings.dealerHoleCard)
  ]_vars

\* The deviation DEVIATION_INDICES holds for the hand at the count, were
\* doubling and splitting available.
TableDeviation(hand, upCard, trueCount) ==
  IF trueCount.null THEN "none"
  ELSE checkDeviationIndex(hand, getCardValue(upCard.rank), trueCount.n, TRUE, TRUE)

\* C26: getBasicStrategyRecommendation returns one of HIT, STAND, DOUBLE,
\* SPLIT, SURRENDER; DOUBLE only when doubling is available, SPLIT only when
\* splitting is available, SURRENDER only when surrender is available; and
\* when the deviation of the table is a DOUBLE or a SPLIT that is not
\* available it returns the answer it gives without a true count.
C26_AdviceIsAvailable ==
  ret.op = "recommend" =>
    LET hand == game.playerHands[1]
        upCard == game.dealerHand.cards[1]
        deviation == TableDeviation(hand, upCard, ret.trueCount)
    IN /\ ret.value \in {"HIT", "STAND", "DOUBLE", "SPLIT", "SURRENDER"}
       /\ ret.value = "DOUBLE" => ret.canDouble
       /\ ret.value = "SPLIT" => ret.canSplit
       /\ ret.value = "SURRENDER" => ret.canSurrender
       /\ ((deviation = "DOUBLE" /\ ~ret.canDouble)
             \/ (deviation = "SPLIT" /\ ~ret.canSplit))
            => ret.value = getBasicStrategyRecommendation(
                             hand, upCard, ret.canDouble, ret.canSplit,
                             ret.canSurrender, NoCount)

C26_Witness ==
  /\ ret.op = "recommend"
  /\ ~ret.canDouble
  /\ ret.trueCount = Counted(4)
  /\ Len(game.playerHands[1].cards) = 2
  /\ Total(game.playerHands[1]) = 10
  /\ game.dealerHand.cards[1].rank = "K"
  /\ ret.value = "HIT"

\* The deviation lookup of getStrategyHint() on the engine g.
HintLookup(g) ==
  checkDeviationIndex(currentHand(g), getCardValue(g.dealerHand.cards[1].rank),
                      getTrueCount(g.deck), canDouble(g), canSplit(g))

\* C27: in PLAYER_TURN with counting enabled, getDeviationInfo() reports
\* isDeviation = true with action X exactly when the deviation lookup of
\* getStrategyHint() returns X, and isDeviation = false exactly when that
\* lookup returns no deviation.
C27_DeviationInfoIsTheLookup ==
  [][(/\ ret'.op = "getDeviationInfo"
      /\ UNCHANGED <<game, tasks, hits, deals, bets, newRounds>>
      /\ game.state = PLAYER_TURN
      /\ game.settings.countingEnabled)
      => /\ ret'.value.isDeviation <=> HintLookup(game) # "none"
         /\ ret'.value.isDeviation => ret'.value.action = HintLookup(game)
  ]_vars

\* An entry the claim has the constructor ignore: missing, unparsable,
\* without timestamp, older than the expiration window, or with a payload
\* that is absent or of a wrong shape.
Ignored(entry, shape) ==
  \/ entry.kind \in {"missing", "unparsable"}
  \/ ~entry.stamped
  \/ entry.age > EXPIRATION_MS
  \/ entry.data.type # shape

Expired(entry) ==
  entry.kind = "wrapper" /\ entry.stamped /\ entry.age > EXPIRATION_MS

\* C29: the constructor finds a stored balance, settings or statistics
\* entry that is missing, unparsable, without timestamp, older than 7 days
\* or with a payload that is absent or of the wrong shape: it does not throw
\* and leaves the value in memory at its default (balance 10000, default
\* settings, zeroed statistics); an expired entry is removed from storage.
C29_BadEntryLeavesDefault ==
  ret.op = "constructor" =>
    /\ Ignored(ret.found.balance, "number")
         => game.balance = JsNumber(DEFAULT_BALANCE)
    /\ Ignored(ret.found.settings, "object") => game.settings = DefaultSettings
    /\ Ignored(ret.found.stats, "object") => game.stats = ZeroStats
    /\ Expired(ret.found.balance) => game.saved.balance = MissingEntry
    /\ Expired(ret.found.settings) => game.saved.settings = MissingEntry
    /\ Expired(ret.found.stats) => game.saved.stats = MissingEntry

\* A step in which handleHandComplete ran for the active hand of an awaited
\* call: stand(), an accepted surrender(), double() after its card, hit()
\* after a card that busted the hand or brought it to 21.
Completes ==
  /\ game.state = PLAYER_TURN
  /\ \/ tasks = <<>> /\ Stand
     \/ /\ tasks = <<>> /\ Surrender
        /\ Len(currentHand(game).cards) = 2 /\ game.settings.surrenderAllowed
     \/ tasks = <<"double1">> /\ Resume
     \/ /\ tasks = <<"hit1">> /\ Resume
        /\ \/ currentHand(game).isBusted
           \/ getValue(currentHand(game)) = 21 /\ game.settings.autoStandOn21

\* C31: completing hand i when a hand i+1 exists makes hand i+1 the active
\* hand and deals it one face-up card if it holds a single card; completing
\* the last hand starts the dealer turn.  Hence in PLAYER_TURN, with no
\* operation suspended, currentHandIndex is a valid index and the active
\* hand holds at least two cards, and at payout every player hand holds at
\* least two cards.
C31_HandsPlayedInOrder ==
  /\ [](game.state = PLAYER_TURN /\ tasks = <<>>
          => /\ game.currentHandIndex \in 0..(Len(game.playerHands) - 1)
             /\ Len(currentHand(game).cards) >= 2)
  /\ [][Completes =>
          LET i == game.currentHandIndex + 1
          IN IF i < Len(game.playerHands)
             THEN /\ game'.currentHandIndex = game.currentHandIndex + 1
                  /\ game'.state = PLAYER_TURN
                  /\ Len(game'.playerHands) = Len(game.playerHands)
                  /\ LET before == game.playerHands[i + 1].cards
                         after == game'.playerHands[i + 1].cards
                     IN IF Len(before) = 1
                        THEN /\ Len(after) = 2
                             /\ after[1] = before[1]
                             /\ after[2].faceUp
                        ELSE after = before
             ELSE game'.state \in {DEALER_TURN, GAME_OVER}
     ]_vars
  /\ [][Resolves => \A k \in 1..Len(game'.playerHands) :
                      Len(game'.playerHands[k].cards) >= 2]_vars

\* C32: with the dealerHoleCard setting on, two runs of the same calls on
\* shoes that differ only in the rank of the dealer's hole card have the
\* same running count and the same true count in every state in which the
\* hole card is still face-down.
C32_HoleCardDoesNotLeak ==
  (game.settings.dealerHoleCard /\ HoleDown(game) /\ HoleDown(twin.g))
    => /\ game.deck.runningCount = twin.g.deck.runningCount
       /\ getTrueCount(game.deck) = getTrueCount(twin.g.deck)

\* C32: the player has taken a card; the dealer's hole card is a six in one
\* run and a king in the other, face-down in both.
C32_Witness ==
  /\ game.state = PLAYER_TURN
  /\ twin.g.state = PLAYER_TURN
  /\ Len(game.playerHands[1].cards) = 3
  /\ Len(game.dealerHand.cards) = 2
  /\ ~game.dealerHand.cards[2].faceUp
  /\ ~twin.g.dealerHand.cards[2].faceUp
  /\ game.dealerHand.cards[2].rank = "6"
  /\ twin.g.dealerHand.cards[2].rank = "K"

\* C33: under every interleaving of calls with operations suspended at a
\* notification or a pacing delay, a round is settled at most once: between
\* a deal() and the next newRound() resolveHands runs at most once
\* (handsPlayed, which resolveHands alone raises, by one each time, never
\* exceeds the number of deals), and a step that settles does not credit or
\* count a round that is already over.
C33_RoundSettledOnce ==
  /\ [](game.stats.handsPlayed <= deals)
  /\ [][game.state = GAME_OVER /\ deals' = deals /\ newRounds' = newRounds
          => /\ game'.stats.handsPlayed = game.stats.handsPlayed
             /\ game'.stats.handsWon = game.stats.handsWon
             /\ game'.stats.handsLost = game.stats.handsLost
             /\ game'.stats.handsPushed = game.stats.handsPushed
             /\ game'.balance = game.balance]_vars

\* A call of deal() that passes its guard and starts dealing a round.
StartsDealing == Deal /\ game.currentBet # 0

\* C34: whenever deal() starts dealing a round, what placeBet has deducted
\* from the balance since the previous round ended (or since construction)
\* equals the stake recorded on hand 0.  At the first deal of a session that
\* is the whole fall of the balance since construction; at a deal() issued
\* in GAME_OVER after a round dealt on the last bet, nothing was deducted
\* since that round ended.
C34_RoundPaidOnce ==
  [][StartsDealing =>
       /\ deals = 0 =>
            NewGame.balance - game.balance = game'.playerHands[1].bet
       /\ (game.state = GAME_OVER /\ dealsSinceBet > 0) =>
            0 = game'.playerHands[1].bet
    ]_vars

\* A round dealt once on the last bet is over.
RoundOver == game.state = GAME_OVER /\ dealsSinceBet = 1

\* C35: for a round played without addChips, the change of stats.netProfit
\* between placeBet and GAME_OVER equals the change of the balance over the
\* same span, on every path (win, loss, push, double, split, surrender,
\* immediate blackjack, insurance taken and won or lost).
C35_NetProfitIsBalanceChange ==
  RoundOver =>
    2 * (game.stats.netProfit - betBase.stats.netProfit)
      = 2 * (game.balance - betBase.balance)

\* C36: every round that reaches GAME_OVER raises handsPlayed by exactly
\* one, whichever path ended it: the payout of resolveHands, an immediate
\* player blackjack, or a dealer blackjack found at the insurance decision.
C36_HandsPlayedOncePerRound ==
  RoundOver => game.stats.handsPlayed = betBase.stats.handsPlayed + 1

\* C37: whenever the phase is GAME_OVER the persisted balance equals the
\* balance in memory and the persisted statistics equal the statistics in
\* memory.
C37_FinishedRoundIsPersisted ==
  game.state = GAME_OVER
    => /\ game.saved.balance = game.balance
       /\ game.saved.stats = game.stats

\* C38: starting from a non-negative balance, the balance is never negative
\* under any sequence of placeBet, deal, handleInsuranceDecision, hit,
\* stand, double, split, surrender, newRound and addChips with non-negative
\* amounts: no step takes more from the balance than it holds.
C38_BalanceNeverNegative ==
  /\ [](game.balance >= 0)
  /\ [][game'.balance < game.balance => game.balance - game'.balance <= game.balance]_vars

\* C38: the insurance stake was exactly the balance left after the bet, and
\* a double was refused for lack of chips.
C38_Witness ==
  /\ game.state = PLAYER_TURN
  /\ game.balance = 0
  /\ currentHand(game).insuranceBet = 50
  /\ currentHand(game).bet = 100
  /\ ~canDouble(game)
  /\ HandCanDouble(currentHand(game), FALSE)

\* The cards of rank r in a pile of cards, and in the hands of the table.
CountRank(cards, r) == Cardinality({i \in 1..Len(cards) : cards[i].rank = r})

Held(g, r) ==
  LET InHand(hand) == CountRank(hand.cards, r)
  IN CountRank(g.dealerHand.cards, r) + SumOver(g.playerHands, InHand)

\* C39: while a round is in progress (DEALING through PAYOUT) no card held
\* in a player hand or in the dealer hand is also in the draw pile, and no
\* card is held twice, under any sequence of public operations including
\* reshuffle() and updateSettings() with a deck count: of every rank, the
\* cards in the hands and the cards in the draw pile together are no more
\* than the shoe has of that rank.
C39_HeldCardsAreOutOfTheShoe ==
  game.state \in {DEALING, INSURANCE, PLAYER_TURN, DEALER_TURN, PAYOUT}
    => \A r \in RANKS :
         Held(game, r) + game.deck.cards[r] <= game.deck.deckCount * SUIT_COUNT

\* A step in which the dealer draws a card.
DealerDraws == Len(game'.dealerHand.cards) = Len(game.dealerHand.cards) + 1

\* C40: once the last player hand is complete the round reaches GAME_OVER
\* without a further call, when every notification and pacing delay
\* completes and the shoe does not run empty; every card the dealer draws
\* raises the dealer's hard total by at least 1.
C40_DealerTurnEnds ==
  /\ (game.state = DEALER_TURN) ~> (game.state = GAME_OVER)
  /\ [][(game.state = DEALER_TURN /\ DealerDraws)
          => HardTotal(game'.dealerHand.cards) >= HardTotal(game.dealerHand.cards) + 1]_vars
  /\ [][(game.state = DEALER_TURN /\ game'.state # DEALER_TURN)
          => game'.state = GAME_OVER /\ tasks' = <<>>]_vars

\* C40: the dealer drew two cards after the player stood, and the round is
\* over.
C40_Witness ==
  /\ game.state = GAME_OVER
  /\ Len(game.dealerHand.cards) = 4
  /\ game.playerHands[1].isStood
  /\ ~game.playerHands[1].isBusted
  /\ game.stats.handsPlayed = 1
====
